---- MODULE Spec2Model ----
(***************************************************************************)
(* Ticket intake workflow engine of the RA bot (regular_bot.py).           *)
(*                                                                         *)
(* One private chat session is modelled: its Draft (ticket, step_idx,      *)
(* mode, editing, custom-source flag), the last response the bot rendered  *)
(* (text and keyboard) and the gateway calls the last handler made.        *)
(* The handlers cmd_start, on_text and every branch of on_callback are     *)
(* the actions.  Callback data are the tokens the bot's own keyboards      *)
(* carry; a token may arrive at any time (an older message still on        *)
(* screen), which counts as a detour.                                      *)
(*                                                                         *)
(* Values.  A choice field holds a string, None when unset.  A free text   *)
(* field holds the stripped text as a string, None when unset.  A plate    *)
(* field holds the normalised plate as a sequence of characters, NoPlate   *)
(* (the empty sequence) when unset.  A character is a one-letter string;   *)
(* the Cyrillic series letter that looks like Latin "A" is written "cA".   *)
(* Ticket attributes that no handler ever changes after construction       *)
(* (user_id, username, created_at, incident_time) are left out.            *)
(***************************************************************************)
EXTENDS Integers, Sequences, FiniteSets, TLC

VARIABLES hasTicket, ticket, step_idx, mode, editing, custom, out, calls,
          detours,
          user_data,    \* the draft of every user, as the application keeps it
          alone,        \* the draft of every user had the user been alone
          running       \* the handlers that were entered and have not returned

vars == <<hasTicket, ticket, step_idx, mode, editing, custom, out, calls,
          detours, user_data, alone, running>>

(***************************************************************************)
(* Bounds of the model.                                                    *)
(***************************************************************************)
\* detours of the modelled user from answering the prompt on screen: a skip, a
\* back, a pick of a field to edit, a button the keyboard on screen does not
\* offer (one of an older message), or a text when none is awaited
MaxDetours == 1
\* largest count the modelled user drives one vehicle class to
MaxCount == 1
\* Ticket identifiers are only compared for equality: short_id() of the
\* session's ticket is written "1", the identifier of any other ticket "2".
CurrentId == "1"

TicketIds == {"1", "2"}

None == "None"
NoPlate == <<>>

PRIMARY_MODE == "primary"
RA_MODE == "ra"

(***************************************************************************)
(* Characters and plate validation.                                        *)
(***************************************************************************)
SERIES_CYR == {"cA", "cB", "cE", "cK", "cM", "cH", "cO", "cP", "cC", "cT", "cY", "cX"}

LatLookalike == {"A", "B", "E", "K", "M", "H", "O", "P", "C", "T", "Y", "X"}

LatLower == {"a", "b", "e", "k", "m", "h", "o", "p", "c", "t", "y", "x", "d"}

DigitChars == {"0", "1", "2", "3", "4", "5", "6", "7", "8", "9"}

\* str.upper() on the modelled alphabet
Upper(ch) ==
    CASE ch = "a" -> "A" [] ch = "b" -> "B" [] ch = "e" -> "E" [] ch = "k" -> "K"
      [] ch = "m" -> "M" [] ch = "h" -> "H" [] ch = "o" -> "O" [] ch = "p" -> "P"
      [] ch = "c" -> "C" [] ch = "t" -> "T" [] ch = "y" -> "Y" [] ch = "x" -> "X"
      [] ch = "d" -> "D"
      [] OTHER -> ch

\* str.isalnum() on the modelled alphabet: letters and digits, not separators
IsAlnum(ch) == ch \in DigitChars \cup LatLookalike \cup LatLower \cup SERIES_CYR \cup {"D"}

\* str.translate(LAT_TO_CYR) for one character
LAT_TO_CYR(ch) ==
    CASE ch = "A" -> "cA" [] ch = "B" -> "cB" [] ch = "E" -> "cE" [] ch = "K" -> "cK"
      [] ch = "M" -> "cM" [] ch = "H" -> "cH" [] ch = "O" -> "cO" [] ch = "P" -> "cP"
      [] ch = "C" -> "cC" [] ch = "T" -> "cT" [] ch = "Y" -> "cY" [] ch = "X" -> "cX"
      [] OTHER -> ch

RECURSIVE Compact(_)
\* "".join(ch for ch in text.upper() if ch.isalnum()).translate(LAT_TO_CYR)
Compact(text) ==
    IF text = <<>> THEN <<>>
    ELSE LET u == Upper(Head(text))
         IN  IF IsAlnum(u) THEN <<LAT_TO_CYR(u)>> \o Compact(Tail(text))
             ELSE Compact(Tail(text))

AllIn(s, from, to, S) == \A i \in from..to : s[i] \in S

\* ^[SERIES](\d{lo,hi})[SERIES]{2}(\d{2,3})$
PlateMatch(s, lo, hi) ==
    \E n \in lo..hi, r \in 2..3 :
        /\ Len(s) = 1 + n + 2 + r
        /\ s[1] \in SERIES_CYR
        /\ AllIn(s, 2, 1 + n, DigitChars)
        /\ AllIn(s, 2 + n, 3 + n, SERIES_CYR)
        /\ AllIn(s, 4 + n, 3 + n + r, DigitChars)

PLATE_RE_34(s) == PlateMatch(s, 3, 4)

\* mutant: the KIA pattern takes a 4-digit block too
PLATE_RE_3_or_4(s) == PlateMatch(s, 3, 4)

PLATE_RE_3(s) == PlateMatch(s, 3, 3)

\* ^[SERIES]{2}(\d{4})(\d{2,3})$
REF_COMPACT_RE(s) ==
    \E r \in 2..3 :
        /\ Len(s) = 2 + 4 + r
        /\ AllIn(s, 1, 2, SERIES_CYR)
        /\ AllIn(s, 3, 6 + r, DigitChars)

\* The normalised plate, or NoPlate where the code returns None.
normalize_vats_plate(text, brand) ==
    IF text = <<>> THEN NoPlate
    ELSE LET s == Compact(text)
         IN  IF brand = "KIA_CEED"
             THEN IF PLATE_RE_3(s) THEN s ELSE NoPlate
             ELSE IF PLATE_RE_34(s) THEN s ELSE NoPlate

normalize_ref_plate(text) ==
    IF text = <<>> THEN NoPlate
    ELSE LET s == Compact(text)
         IN  IF REF_COMPACT_RE(s) THEN s ELSE NoPlate

RECURSIVE Strip(_)
\* str.strip(): leading and trailing blanks removed
Strip(text) ==
    IF text = <<>> THEN <<>>
    ELSE IF Head(text) = " " THEN Strip(Tail(text))
    ELSE IF text[Len(text)] = " " THEN Strip(SubSeq(text, 1, Len(text) - 1))
    ELSE text

RECURSIVE Join(_)
\* the characters of a text as one string
Join(text) == IF text = <<>> THEN "" ELSE Head(text) \o Join(Tail(text))

(***************************************************************************)
(* Ticket and step catalog.                                                *)
(***************************************************************************)
VEHICLE_KINDS == {"light", "bus", "truck", "moto"}

EmptyVehicles == [k \in {} |-> 0]

\* Ticket(id=...): every optional field unset, dtp_vehicles the empty dict
Ticket(id) ==
    [id |-> id,
     incident_type |-> None, incident_source |-> None, dtp_type |-> None,
     brand |-> None, plate_vats |-> NoPlate, plate_ref |-> NoPlate,
     dtp_vehicles |-> EmptyVehicles,
     location |-> None, dtp_damage_text |-> None, obstacle_on_road |-> None,
     break_symptoms |-> None, problem_desc |-> None, notes |-> None,
     jira_main |-> None,
     ra_need_dtp_formalization |-> None, ra_need_diagnosis |-> None,
     ra_need_repair |-> None, ra_need_evacuation |-> None,
     ra_called_112 |-> None, ra_chat_id |-> None]

RA_KEYS == {"ra_need_dtp_formalization", "ra_need_diagnosis", "ra_need_repair",
            "ra_need_evacuation", "ra_called_112"}

PLATE_KEYS == {"plate_vats", "plate_ref"}

TEXT_KEYS == {"location", "dtp_damage_text", "break_symptoms", "problem_desc", "notes"}

STEP_INPUT_KIND(key) ==
    CASE key = "plate_vats" -> "plate"
      [] key = "plate_ref" -> "plate_ref"
      [] key = "dtp_vehicles" -> "counter"
      [] key \in TEXT_KEYS -> "text"
      [] OTHER -> "choice"

\* the keys of STEP_INPUT_KIND: every field a prompt exists for
STEP_KEYS ==
    {"incident_type", "incident_source", "dtp_type", "brand", "dtp_vehicles",
     "obstacle_on_road"} \cup PLATE_KEYS \cup TEXT_KEYS \cup RA_KEYS

ALL_KNOWN_KEYS == STEP_KEYS \cup {"incident_time"}

NO_SKIP_FIELDS == {}

_allow_skip_field(key) == key \notin NO_SKIP_FIELDS

INCIDENT_SOURCE_CUSTOM_VALUE == "__CUSTOM_INCIDENT_SOURCE__"

\* the callback values of CHOICE_OPTIONS[key], in keyboard order
CHOICE_OPTIONS(key) ==
    CASE key = "incident_type" -> <<"DTP", "BREAK">>
      [] key = "incident_source" ->
            <<"DRIVER_CALL", "TELEOPS_REQUEST", "EXTERNAL_CALL", INCIDENT_SOURCE_CUSTOM_VALUE>>
      [] key = "dtp_type" -> <<"COLLISION", "ROLLOVER", "RUNOVER">>
      [] key = "brand" -> <<"KIA_CEED", "SITRAK">>
      [] key = "obstacle_on_road" -> <<"YES", "NO", "UNKNOWN">>
      [] key \in RA_KEYS -> <<"YES", "NO">>
      [] OTHER -> <<>>

Range(s) == {s[i] : i \in DOMAIN s}

\* list.index(x), zero-based; x is in s
IndexOf(s, x) == (CHOOSE i \in DOMAIN s : s[i] = x /\ \A j \in 1..(i - 1) : s[j] # x) - 1

\* list.insert(at, x), at zero-based
InsertAt(s, at, x) == SubSeq(s, 1, at) \o <<x>> \o SubSeq(s, at + 1, Len(s))

Max(a, b) == IF a >= b THEN a ELSE b

Min(a, b) == IF a <= b THEN a ELSE b

\* mutant: plate_ref inserted at the place of plate_vats, not after it
_maybe_add_plate_ref_before(t, seq) ==
    IF t.brand = "SITRAK"
    THEN InsertAt(seq, IF "plate_vats" \in Range(seq) THEN IndexOf(seq, "plate_vats")
                       ELSE Len(seq), "plate_ref")
    ELSE seq

_maybe_add_plate_ref(t, seq) ==
    IF t.brand = "SITRAK"
    THEN InsertAt(seq, IF "plate_vats" \in Range(seq) THEN IndexOf(seq, "plate_vats") + 1
                       ELSE Len(seq), "plate_ref")
    ELSE seq

_steps_for_primary(t) ==
    IF t.incident_type = "DTP"
    THEN _maybe_add_plate_ref(t,
            <<"incident_type", "incident_source", "dtp_type", "brand", "plate_vats",
              "dtp_vehicles", "location", "dtp_damage_text", "problem_desc",
              "obstacle_on_road", "notes">>)
    ELSE _maybe_add_plate_ref(t,
            <<"incident_type", "incident_source", "brand", "plate_vats", "location",
              "break_symptoms", "problem_desc", "obstacle_on_road", "notes">>)

\* mutant: the RA list does not branch on the incident type
_steps_for_ra_flat(t) ==
    <<"ra_need_dtp_formalization", "ra_need_diagnosis", "ra_need_repair",
      "ra_need_evacuation", "ra_called_112">>

_steps_for_ra(t) ==
    IF t.incident_type = "DTP"
    THEN <<"ra_need_dtp_formalization", "ra_need_diagnosis", "ra_need_repair",
           "ra_need_evacuation", "ra_called_112">>
    ELSE <<"ra_need_diagnosis", "ra_need_repair", "ra_need_evacuation">>

active_steps(t, m) ==
    IF m = PRIMARY_MODE THEN _steps_for_primary(t)
    ELSE IF m = RA_MODE THEN _steps_for_ra(t)
    ELSE _steps_for_primary(t)

\* the index current_step_key stores back into the draft
ClampIdx(t, m, idx) ==
    LET n == Len(active_steps(t, m))
    IN  Max(0, IF idx >= n THEN n - 1 ELSE idx)

\* the key current_step_key returns
current_step_key(t, m, idx) == active_steps(t, m)[ClampIdx(t, m, idx) + 1]

\* the index set_step_idx stores
set_step_idx(t, m, idx) == Max(0, Min(idx, Len(active_steps(t, m)) - 1))

\* mutant: the cursor moves two steps forward
goto_next_step_by_two(t, m, idx) == Min(idx + 2, Len(active_steps(t, m)) - 1)

\* the index goto_next_step stores
goto_next_step(t, m, idx) == Min(idx + 1, Len(active_steps(t, m)) - 1)

\* the index goto_prev_step stores
goto_prev_step(idx) == Max(idx - 1, 0)

is_last_step(t, m, idx) == idx >= Len(active_steps(t, m)) - 1

\* the value a skipped or cleared field holds
Unset(key) ==
    IF key = "dtp_vehicles" THEN EmptyVehicles
    ELSE IF key \in PLATE_KEYS THEN NoPlate
    ELSE None

\* mutant: storing a value into any field but notes wipes the notes
set_field_local_drops_notes(t, key, val) ==
    IF key = "notes" THEN [t EXCEPT ![key] = val]
    ELSE [t EXCEPT ![key] = val, !.notes = None]

\* set_field_local(ticket, key, val)
set_field_local(t, key, val) == [t EXCEPT ![key] = val]

(***************************************************************************)
(* Keyboards and responses.  A button is the tuple of the fields of its    *)
(* callback data; a response is the text shown and the keyboard under it.  *)
(***************************************************************************)
BtnSkip(key) == <<"nav", "skip", key>>

BtnBack(key) == <<"nav", "back", key>>

kb_choice(step_key) ==
    {<<"set", step_key, v>> : v \in Range(CHOICE_OPTIONS(step_key))}
    \cup (IF step_key # "incident_type" /\ _allow_skip_field(step_key)
          THEN {BtnSkip(step_key)} ELSE {})
    \cup (IF step_key # "incident_type" THEN {BtnBack(step_key)} ELSE {})

\* mutant: the skip button is offered whatever skip says
kb_nav_skip_offered(cur_key, back, skip) ==
    {BtnSkip(cur_key)} \cup (IF back THEN {BtnBack(cur_key)} ELSE {})

\* kb_nav(cur_key, back=..., skip=...) with skip given
kb_nav_skip(cur_key, back, skip) ==
    (IF skip THEN {BtnSkip(cur_key)} ELSE {}) \cup (IF back THEN {BtnBack(cur_key)} ELSE {})

\* kb_nav(cur_key, back=...) with skip=None
kb_nav(cur_key, back) == kb_nav_skip(cur_key, back, _allow_skip_field(cur_key))

kb_summary == {<<"summary", "edit">>, <<"summary", "create">>}

\* mutant: the close button is missing
kb_after_main_created_no_close(t) == {<<"act", "ra", t.id>>}

kb_after_main_created(t) == {<<"act", "ra", t.id>>, <<"act", "close", t.id>>}

BtnOpenChat == <<"url", "open_chat">>

\* mutant: the dispatch button is offered with the invite link, not with the chat
kb_after_ra_by_link(t, invite_link) ==
    {<<"act", "close", t.id>>}
    \cup (IF invite_link THEN {<<"dispatch", t.id>>, BtnOpenChat} ELSE {})

kb_after_ra(t, invite_link) ==
    {<<"act", "close", t.id>>}
    \cup (IF t.ra_chat_id # None THEN {<<"dispatch", t.id>>} ELSE {})
    \cup (IF invite_link THEN {BtnOpenChat} ELSE {})

kb_veh_counter ==
    {<<"veh", a, k>> : a \in {"minus", "plus"}, k \in VEHICLE_KINDS}
    \cup {<<"veh", "done">>, BtnSkip("dtp_vehicles"), BtnBack("dtp_vehicles")}

kb_edit_field_list(t, m) ==
    {<<"edit", "field", k>> : k \in Range(active_steps(t, m))} \cup {<<"edit", "cancel">>}

(***************************************************************************)
(* Summaries.  A rendered block is the sequence of its lines, each line    *)
(* named by the label it carries.                                          *)
(***************************************************************************)
\* _append(label, value, condition=...): the line, or nothing
SummaryLine(label, condition) == IF condition THEN <<label>> ELSE <<>>

\* mutant: the trailer plate is shown whenever one is stored
render_primary_block_by_value(t) ==
    LET is_dtp == t.incident_type = "DTP"
    IN  SummaryLine("incident_type", TRUE) \o SummaryLine("incident_source", TRUE)
        \o SummaryLine("incident_time", TRUE)
        \o SummaryLine("dtp_type", is_dtp)
        \o SummaryLine("brand", TRUE) \o SummaryLine("plate_vats", TRUE)
        \o SummaryLine("plate_ref", t.plate_ref # NoPlate)
        \o SummaryLine("location", TRUE)
        \o SummaryLine("dtp_vehicles", is_dtp) \o SummaryLine("dtp_damage", is_dtp)
        \o SummaryLine("obstacle_on_road", TRUE)
        \o SummaryLine("break_symptoms", ~is_dtp)
        \o SummaryLine("problem_desc", TRUE) \o SummaryLine("notes", TRUE)

render_primary_block(t) ==
    LET is_dtp == t.incident_type = "DTP"
    IN  SummaryLine("incident_type", TRUE) \o SummaryLine("incident_source", TRUE)
        \o SummaryLine("incident_time", TRUE)
        \o SummaryLine("dtp_type", is_dtp)
        \o SummaryLine("brand", TRUE) \o SummaryLine("plate_vats", TRUE)
        \o SummaryLine("plate_ref", t.brand = "SITRAK")
        \o SummaryLine("location", TRUE)
        \o SummaryLine("dtp_vehicles", is_dtp) \o SummaryLine("dtp_damage", is_dtp)
        \o SummaryLine("obstacle_on_road", TRUE)
        \o SummaryLine("break_symptoms", ~is_dtp)
        \o SummaryLine("problem_desc", TRUE) \o SummaryLine("notes", TRUE)

render_preview_block(t) == <<"preview_label">> \o render_primary_block(t)

compose_primary_block(t) == render_primary_block(t)

compose_ra_block(t) ==
    LET is_dtp == t.incident_type = "DTP"
    IN  <<"ra_form">>
        \o SummaryLine("ra_need_dtp_formalization", is_dtp)
        \o <<"ra_need_diagnosis", "ra_need_repair", "ra_need_evacuation">>
        \o SummaryLine("ra_called_112", is_dtp)

render_after_main(t) == <<"ticket_title", "jira_task">> \o compose_primary_block(t)

render_after_ra(t) ==
    <<"ticket_title", "jira_task", "ra_without_subtask">>
    \o compose_primary_block(t) \o compose_ra_block(t)

\* build_fields_main(ticket)["description"]
build_fields_main(t) == compose_primary_block(t)

Response(text, kb) == [text |-> text, kb |-> kb]

\* a handler that returned, or raised, before rendering anything
NoResponse == Response(<<"none">>, {})

\* the prompt of a step as on_callback renders it after a move
Ask(key) ==
    Response(<<"question", key>>,
             IF STEP_INPUT_KIND(key) = "choice" THEN kb_choice(key)
             ELSE IF STEP_INPUT_KIND(key) = "counter" THEN kb_veh_counter
             ELSE kb_nav(key, TRUE))

\* render_preview_block(ticket) under kb_summary
Preview == Response(<<"preview">>, kb_summary)

ErrorMsg(name, kb) == Response(<<"error", name>>, kb)

(***************************************************************************)
(* Draft.  A handler is an operator from the draft it finds to the draft   *)
(* it leaves, with the response it rendered and the gateway calls it made. *)
(***************************************************************************)
Draft(t, idx, m, e, c, o, cs) ==
    [t |-> t, idx |-> idx, mode |-> m, editing |-> e, custom |-> c, out |-> o, calls |-> cs]

\* the draft as a handler finds it: nothing rendered yet, no call made yet
Cur == Draft(ticket, step_idx, mode, editing, custom, NoResponse, {})

\* the users whose updates the application receives
Users == {"A", "B"}

\* context.user_data of a user who has sent nothing yet
NoDraft == Draft(Ticket(None), 0, PRIMARY_MODE, FALSE, FALSE, NoResponse, {})

\* start_new_draft and the first prompt of cmd_start
\* mutant: the free-text override is on in the new draft
start_new_draft_override_on(id) ==
    Draft(Ticket(id), 0, PRIMARY_MODE, FALSE, TRUE,
          Response(<<"question", "incident_type">>, kb_choice("incident_type")), {})

start_new_draft(id) ==
    Draft(Ticket(id), 0, PRIMARY_MODE, FALSE, FALSE,
          Response(<<"question", "incident_type">>, kb_choice("incident_type")), {})

\* mutant: the editing exit shows the preview and forgets the flag
on_text_after_store_keeps_editing(d) ==
    IF d.editing /\ d.mode = PRIMARY_MODE
    THEN [d EXCEPT !.out = Preview]
    ELSE IF is_last_step(d.t, d.mode, d.idx)
    THEN IF d.mode = PRIMARY_MODE THEN [d EXCEPT !.out = Preview] ELSE d
    ELSE LET nxt == goto_next_step(d.t, d.mode, d.idx)
         IN  [d EXCEPT !.idx = ClampIdx(d.t, d.mode, nxt),
                       !.out = Ask(current_step_key(d.t, d.mode, nxt))]

\* on_text, from the step after a value was stored
on_text_after_store(d) ==
    IF d.editing /\ d.mode = PRIMARY_MODE
    THEN [d EXCEPT !.editing = FALSE, !.out = Preview]
    ELSE IF is_last_step(d.t, d.mode, d.idx)
    THEN IF d.mode = PRIMARY_MODE THEN [d EXCEPT !.out = Preview] ELSE d
    ELSE LET nxt == goto_next_step(d.t, d.mode, d.idx)
             d1 == [d EXCEPT !.idx = ClampIdx(d.t, d.mode, nxt)]
             next_key == current_step_key(d.t, d.mode, nxt)
         IN  [d1 EXCEPT !.out =
                 IF STEP_INPUT_KIND(next_key) = "choice"
                 THEN Response(<<"question", next_key>>, kb_choice(next_key))
                 ELSE IF STEP_INPUT_KIND(next_key) = "counter"
                 THEN Response(<<"question", next_key>>, kb_veh_counter)
                 ELSE Response(<<"question", next_key>>, kb_nav(next_key, TRUE))]

\* on_text for a draft that holds a ticket; raw is the message text
on_text(d0, raw) ==
    LET d == [d0 EXCEPT !.idx = ClampIdx(d0.t, d0.mode, d0.idx)]
        key == current_step_key(d0.t, d0.mode, d0.idx)
        kind == STEP_INPUT_KIND(key)
        text == Strip(raw)
        custom_incident_source == key = "incident_source" /\ d.custom
    IN  IF kind = "plate"
        THEN LET norm == normalize_vats_plate(text, d.t.brand)
                 d1 == [d EXCEPT !.t = set_field_local(d.t, key, norm)]
             IN  IF norm = NoPlate
                 THEN [d EXCEPT !.out = ErrorMsg("plate_invalid", kb_nav(key, TRUE))]
                 ELSE IF /\ key = "plate_vats"
                         /\ d1.editing
                         /\ d1.mode = PRIMARY_MODE
                         /\ d1.t.brand = "SITRAK"
                         /\ d1.t.plate_ref = NoPlate
                         /\ "plate_ref" \in Range(active_steps(d1.t, d1.mode))
                 THEN [d1 EXCEPT
                         !.idx = set_step_idx(d1.t, d1.mode,
                                     IndexOf(active_steps(d1.t, d1.mode), "plate_ref")),
                         !.out = Response(<<"question", "plate_ref">>,
                                          kb_nav_skip("plate_ref", TRUE, FALSE))]
                 ELSE on_text_after_store(d1)
        ELSE IF kind = "plate_ref"
        THEN LET norm == normalize_ref_plate(text)
             IN  IF norm = NoPlate
                 THEN [d EXCEPT !.out = ErrorMsg("plate_ref_invalid", kb_nav(key, TRUE))]
                 ELSE on_text_after_store([d EXCEPT !.t = set_field_local(d.t, key, norm)])
        ELSE IF kind = "text" \/ custom_incident_source
        THEN IF text = <<>>
             THEN [d EXCEPT !.out = ErrorMsg("empty_text", kb_nav(key, TRUE))]
             ELSE on_text_after_store(
                     [d EXCEPT !.t = set_field_local(d.t, key, Join(text)),
                               !.custom = IF custom_incident_source THEN FALSE ELSE d.custom])
        ELSE d

(***************************************************************************)
(* Gateways.  What a collaborator answers is an input of the handler.      *)
(***************************************************************************)
\* try_create_chat_via_userbot: (invite_link, error, chat_id) by what the adapter did
\*   "disabled" no adapter, "error" the call raised, "link" a bare http link,
\*   "chat" a shape a chat identifier is extracted from, "other" any other shape
GatewayAnswers == {"disabled", "error", "link", "chat", "other"}

ChatId == "chat1"

try_create_chat_via_userbot(answer) ==
    [link |-> answer = "link",
     err |-> answer \in {"disabled", "error"},
     chat_id |-> IF answer = "chat" THEN ChatId ELSE None]

\* outcomes of one Telegram call that the handler guards with try/except
TgOutcomes == {"ok", "TelegramError"}

\* a notification channel: not configured (id 0), or configured and the send
\* succeeds or raises
ChannelOutcomes == {"off", "ok", "TelegramError"}

\* env: what the collaborators answer during one secondary-completion
RaEnvs ==
    [gw : GatewayAnswers, invite : TgOutcomes, title : TgOutcomes, post : TgOutcomes,
     notify : ChannelOutcomes, dispatch : ChannelOutcomes]

\* notify_help_chat(context, invite_link): the call it makes
notify_help_chat(invite_link, channel) ==
    IF channel = "off" THEN {}
    ELSE IF invite_link THEN {"notify_help_with_link"}
    ELSE {"notify_help_without_link"}

\* mutant: a failed rename of the chat is not caught and ends the handler
finish_ra_flow_title_raises(d, env) ==
    LET res == try_create_chat_via_userbot(env.gw)
        created == res.chat_id # None
        t1 == IF created THEN [d.t EXCEPT !.ra_chat_id = res.chat_id] ELSE d.t
        invite_link == created /\ env.invite = "ok"
        chatCalls ==
            (IF env.gw = "disabled" THEN {} ELSE {"create_chat"})
            \cup (IF created
                  THEN {"create_chat_invite_link", "set_chat_title", "post_summary"}
                  ELSE {})
        d1 == [d EXCEPT !.mode = PRIMARY_MODE, !.idx = 0, !.t = t1]
    IN  IF created /\ env.title = "TelegramError"
        THEN [d1 EXCEPT !.calls = {"create_chat", "create_chat_invite_link",
                                   "set_chat_title", "on_error"}]
        ELSE IF env.notify = "TelegramError"
        THEN [d1 EXCEPT !.calls = chatCalls \cup notify_help_chat(invite_link, env.notify)
                                  \cup {"on_error"}]
        ELSE [d1 EXCEPT
                !.out = Response(<<"after_ra">>, kb_after_ra(t1, invite_link)),
                !.calls = chatCalls \cup notify_help_chat(invite_link, env.notify)
                          \cup (IF env.dispatch = "off" THEN {} ELSE {"ra_notice"})]

\* finish_ra_flow_if_needed, the branch taken when mode is RA on the last step
finish_ra_flow(d, env) ==
    LET res == try_create_chat_via_userbot(env.gw)
        created == res.chat_id # None
        t1 == IF created THEN [d.t EXCEPT !.ra_chat_id = res.chat_id] ELSE d.t
        invite_link == created /\ env.invite = "ok"
        chatCalls ==
            (IF env.gw = "disabled" THEN {} ELSE {"create_chat"})
            \cup (IF created
                  THEN {"create_chat_invite_link", "set_chat_title", "post_summary"}
                  ELSE {})
        d1 == [d EXCEPT !.mode = PRIMARY_MODE, !.idx = 0, !.t = t1]
    IN  IF env.notify = "TelegramError"
        THEN \* notify_help_chat raises: the handler ends here
             [d1 EXCEPT !.calls = chatCalls \cup notify_help_chat(invite_link, env.notify)
                                  \cup {"on_error"}]
        ELSE [d1 EXCEPT
                !.out = Response(<<"after_ra">>, kb_after_ra(t1, invite_link)),
                !.calls = chatCalls \cup notify_help_chat(invite_link, env.notify)
                          \cup (IF env.dispatch = "off" THEN {} ELSE {"ra_notice"})]

finish_ra_flow_if_needed(d) == d.mode = RA_MODE /\ is_last_step(d.t, d.mode, d.idx)

(***************************************************************************)
(* on_callback, one operator per branch.                                   *)
(***************************************************************************)
\* the prompt shown after the cursor moved: current_step_key, then the step's prompt
ShowCurrent(d) ==
    [d EXCEPT !.idx = ClampIdx(d.t, d.mode, d.idx),
              !.out = Ask(current_step_key(d.t, d.mode, d.idx))]

\* mutant: a counter adjustment also takes the cursor to the next step
veh_adjust_advances(d, action, kind) ==
    LET v == d.t.dtp_vehicles
        cur == IF kind \in DOMAIN v THEN v[kind] ELSE 0
        new == Max(0, cur + (IF action = "plus" THEN 1 ELSE -1))
        v1 == [k \in DOMAIN v \cup {kind} |-> IF k = kind THEN new ELSE v[k]]
    IN  [d EXCEPT !.t = [d.t EXCEPT !.dtp_vehicles = v1],
                  !.idx = goto_next_step(d.t, d.mode, d.idx),
                  !.out = Response(<<"question", "dtp_vehicles">>, kb_veh_counter)]

\* mutant: a decrement is not floored at 0
veh_adjust_unfloored(d, action, kind) ==
    LET v == d.t.dtp_vehicles
        cur == IF kind \in DOMAIN v THEN v[kind] ELSE 0
        new == cur + (IF action = "plus" THEN 1 ELSE -1)
        v1 == [k \in DOMAIN v \cup {kind} |-> IF k = kind THEN new ELSE v[k]]
    IN  [d EXCEPT !.t = [d.t EXCEPT !.dtp_vehicles = v1],
                  !.out = Response(<<"question", "dtp_vehicles">>, kb_veh_counter)]

\* veh|plus|kind and veh|minus|kind
veh_adjust(d, action, kind) ==
    LET v == d.t.dtp_vehicles
        cur == IF kind \in DOMAIN v THEN v[kind] ELSE 0
        new == Max(0, cur + (IF action = "plus" THEN 1 ELSE -1))
        v1 == [k \in DOMAIN v \cup {kind} |-> IF k = kind THEN new ELSE v[k]]
    IN  [d EXCEPT !.t = [d.t EXCEPT !.dtp_vehicles = v1],
                  !.out = Response(<<"question", "dtp_vehicles">>, kb_veh_counter)]

\* veh|done
veh_done(d) ==
    IF d.editing /\ d.mode = PRIMARY_MODE
    THEN [d EXCEPT !.editing = FALSE, !.out = Preview]
    ELSE IF is_last_step(d.t, d.mode, d.idx) /\ d.mode = PRIMARY_MODE
    THEN [d EXCEPT !.out = Preview]
    ELSE ShowCurrent([d EXCEPT !.idx = goto_next_step(d.t, d.mode, d.idx)])

\* mutant: back steps from the stored cursor, whatever step the button names
nav_back_from_cursor(d, cur_key) ==
    IF d.editing /\ d.mode = PRIMARY_MODE
    THEN [d EXCEPT !.editing = FALSE, !.out = Preview]
    ELSE ShowCurrent(
             [d EXCEPT !.custom = IF cur_key = "incident_source" THEN FALSE ELSE d.custom,
                       !.idx = goto_prev_step(d.idx)])

\* nav|back|cur_key
nav_back(d, cur_key) ==
    IF d.editing /\ d.mode = PRIMARY_MODE
    THEN [d EXCEPT !.editing = FALSE, !.out = Preview]
    ELSE LET steps == active_steps(d.t, d.mode)
             d1 == [d EXCEPT !.custom = IF cur_key = "incident_source" THEN FALSE ELSE d.custom]
         IN  ShowCurrent(
                 [d1 EXCEPT !.idx =
                     IF cur_key \in Range(steps)
                     THEN set_step_idx(d.t, d.mode, Max(0, IndexOf(steps, cur_key) - 1))
                     ELSE goto_prev_step(d.idx)])

\* nav|skip|cur_key
nav_skip(d, cur_key, env) ==
    LET d1 == [d EXCEPT !.t = set_field_local(d.t, cur_key, Unset(cur_key)),
                        !.custom = IF cur_key = "incident_source" THEN FALSE ELSE d.custom]
    IN  IF finish_ra_flow_if_needed(d1)
        THEN finish_ra_flow(d1, env)
        ELSE IF d1.editing \/ is_last_step(d1.t, d1.mode, d1.idx)
        THEN [d1 EXCEPT !.out = Preview]
        ELSE ShowCurrent([d1 EXCEPT !.idx = goto_next_step(d1.t, d1.mode, d1.idx)])

\* mutant: the post-set decision works on the stored cursor without clamping it
set_post_decision_unclamped(d0, field_key, env) ==
    LET d == d0
        was_current == current_step_key(d0.t, d0.mode, d0.idx) = field_key
        was_last == was_current /\ is_last_step(d.t, d.mode, d.idx)
    IN  IF d.editing /\ d.mode = PRIMARY_MODE
        THEN [d EXCEPT !.editing = FALSE, !.out = Preview]
        ELSE IF was_last /\ d.mode = PRIMARY_MODE
        THEN [d EXCEPT !.out = Preview]
        ELSE IF was_last /\ d.mode = RA_MODE /\ finish_ra_flow_if_needed(d)
        THEN finish_ra_flow(d, env)
        ELSE ShowCurrent(
                 IF was_current
                 THEN [d EXCEPT !.idx = goto_next_step(d.t, d.mode, d.idx)]
                 ELSE d)

\* set|field_key|value, from "mode = draft.get(...)" on: the post-set decision
set_post_decision(d0, field_key, env) ==
    LET d == [d0 EXCEPT !.idx = ClampIdx(d0.t, d0.mode, d0.idx)]
        was_current == current_step_key(d0.t, d0.mode, d0.idx) = field_key
        was_last == was_current /\ is_last_step(d.t, d.mode, d.idx)
    IN  IF d.editing /\ d.mode = PRIMARY_MODE
        THEN [d EXCEPT !.editing = FALSE, !.out = Preview]
        ELSE IF was_last /\ d.mode = PRIMARY_MODE
        THEN [d EXCEPT !.out = Preview]
        ELSE IF was_last /\ d.mode = RA_MODE /\ finish_ra_flow_if_needed(d)
        THEN finish_ra_flow(d, env)
        ELSE ShowCurrent(
                 IF was_current
                 THEN [d EXCEPT !.idx = goto_next_step(d.t, d.mode, d.idx)]
                 ELSE d)

\* mutant: a changed brand clears the primary plate only
set_field_keeps_plate_ref(d, field_key, value, env) ==
    IF field_key \notin ALL_KNOWN_KEYS THEN d
    ELSE IF field_key = "incident_source" /\ value = INCIDENT_SOURCE_CUSTOM_VALUE
    THEN [d EXCEPT !.custom = TRUE,
                   !.out = Response(<<"incident_source_other_prompt">>, kb_nav(field_key, TRUE))]
    ELSE
    LET prev_brand == IF field_key = "brand" THEN d.t.brand ELSE None
        brand_changed == field_key = "brand" /\ prev_brand # None /\ prev_brand # value
        t1 == set_field_local(d.t, field_key, value)
        t2 == IF brand_changed THEN [t1 EXCEPT !.plate_vats = NoPlate]
              ELSE t1
        d1 == [d EXCEPT !.t = t2,
                        !.custom = IF field_key = "incident_source" THEN FALSE ELSE d.custom]
        steps == active_steps(d1.t, d1.mode)
    IN  IF /\ ~brand_changed
           /\ d1.editing
           /\ d1.mode = PRIMARY_MODE
           /\ field_key = "brand"
           /\ value = "SITRAK"
           /\ d1.t.plate_ref = NoPlate
           /\ "plate_ref" \in Range(steps)
        THEN [d1 EXCEPT !.idx = set_step_idx(d1.t, d1.mode, IndexOf(steps, "plate_ref")),
                        !.out = Response(<<"question", "plate_ref">>,
                                         kb_nav_skip("plate_ref", TRUE, FALSE))]
        ELSE IF brand_changed
        THEN IF "plate_vats" \in Range(steps)
             THEN [d1 EXCEPT !.idx = set_step_idx(d1.t, d1.mode, IndexOf(steps, "plate_vats")),
                             !.out = Response(<<"question", "plate_vats">>,
                                              kb_nav("plate_vats", TRUE))]
             ELSE d1
        ELSE set_post_decision(d1, field_key, env)

\* set|field_key|value
set_field(d, field_key, value, env) ==
    IF field_key \notin ALL_KNOWN_KEYS THEN d
    ELSE IF field_key = "incident_source" /\ value = INCIDENT_SOURCE_CUSTOM_VALUE
    THEN [d EXCEPT !.custom = TRUE,
                   !.out = Response(<<"incident_source_other_prompt">>, kb_nav(field_key, TRUE))]
    ELSE
    LET prev_brand == IF field_key = "brand" THEN d.t.brand ELSE None
        brand_changed == field_key = "brand" /\ prev_brand # None /\ prev_brand # value
        t1 == set_field_local(d.t, field_key, value)
        t2 == IF brand_changed THEN [t1 EXCEPT !.plate_vats = NoPlate, !.plate_ref = NoPlate]
              ELSE t1
        d1 == [d EXCEPT !.t = t2,
                        !.custom = IF field_key = "incident_source" THEN FALSE ELSE d.custom]
        steps == active_steps(d1.t, d1.mode)
    IN  IF /\ ~brand_changed
           /\ d1.editing
           /\ d1.mode = PRIMARY_MODE
           /\ field_key = "brand"
           /\ value = "SITRAK"
           /\ d1.t.plate_ref = NoPlate
           /\ "plate_ref" \in Range(steps)
        THEN [d1 EXCEPT !.idx = set_step_idx(d1.t, d1.mode, IndexOf(steps, "plate_ref")),
                        !.out = Response(<<"question", "plate_ref">>,
                                         kb_nav_skip("plate_ref", TRUE, FALSE))]
        ELSE IF brand_changed
        THEN IF "plate_vats" \in Range(steps)
             THEN [d1 EXCEPT !.idx = set_step_idx(d1.t, d1.mode, IndexOf(steps, "plate_vats")),
                             !.out = Response(<<"question", "plate_vats">>,
                                              kb_nav("plate_vats", TRUE))]
             ELSE d1
        ELSE set_post_decision(d1, field_key, env)

\* summary|edit
summary_edit(d) ==
    [d EXCEPT !.out = Response(<<"form_edit_title">>, kb_edit_field_list(d.t, d.mode))]

\* edit|cancel
edit_cancel(d) == [d EXCEPT !.out = Preview]

\* edit|field|field_key; list.index raises when the key is no primary step
edit_field(d, field_key) ==
    IF field_key \notin Range(active_steps(d.t, d.mode)) THEN d
    ELSE LET d1 == [d EXCEPT !.editing = TRUE, !.mode = PRIMARY_MODE]
             steps == active_steps(d1.t, d1.mode)
         IN  IF field_key \notin Range(steps)
             THEN [d1 EXCEPT !.calls = {"on_error"}]
             ELSE [d1 EXCEPT !.idx = set_step_idx(d1.t, d1.mode, IndexOf(steps, field_key)),
                             !.out = Ask(field_key)]

\* mutant: the token's identifier is not compared with the Ticket's
dispatch_any_id(d, t_id, channel) ==
    IF channel = "off" \/ d.t.ra_chat_id = None
    THEN [d EXCEPT !.out = Response(<<"dispatch_missing_chat">>, {})]
    ELSE IF channel = "TelegramError"
    THEN [d EXCEPT !.out = ErrorMsg("telegram", {}), !.calls = {"create_chat_invite_link"}]
    ELSE [d EXCEPT !.out = Response(<<"dispatch_sent">>, {}),
                   !.calls = {"create_chat_invite_link", "dispatch_help"}]

\* dispatch|t_id
dispatch(d, t_id, channel) ==
    IF t_id # d.t.id THEN d
    ELSE IF channel = "off" \/ d.t.ra_chat_id = None
    THEN [d EXCEPT !.out = Response(<<"dispatch_missing_chat">>, {})]
    ELSE IF channel = "TelegramError"
    THEN [d EXCEPT !.out = ErrorMsg("telegram", {}), !.calls = {"create_chat_invite_link"}]
    ELSE [d EXCEPT !.out = Response(<<"dispatch_sent">>, {}),
                   !.calls = {"create_chat_invite_link", "dispatch_help"}]

\* issue keys of the tracker, which gives every issue it creates a key of its own
JiraKeys == {"K1", "K2"}

\* the key of an issue created while the ticket holds key held
FreshKey(held) == IF held = "K1" THEN "K2" ELSE "K1"

\* jira_create: what the tracker answers
\*   "created" 201 with a key, "no_key" 201 without one, "bad_json" 201 with
\*   an unparsable body, "http_error" any other status, "network_error" the
\*   request raised, "config_missing" no request is made
JiraAnswers ==
    {"created", "config_missing", "network_error", "http_error", "bad_json", "no_key"}

\* jira_create(fields): (key, error)
jira_create(answer, held) ==
    [key |-> IF answer = "created" THEN FreshKey(held) ELSE None,
     err |-> IF answer \in {"created", "no_key"} THEN None ELSE answer,
     calls |-> IF answer = "config_missing" THEN {} ELSE {"jira_create"}]

\* mutant: the answer's key is stored whether the creation succeeded or not
summary_create_stores_result(d, answer, channel) ==
    LET res == jira_create(answer, d.t.jira_main)
        t1 == [d.t EXCEPT !.jira_main = res.key]
    IN  IF res.key # None
        THEN [d EXCEPT !.t = t1,
                       !.out = Response(<<"after_main">>, kb_after_main_created(t1)),
                       !.calls = res.calls
                                 \cup (IF channel = "off" THEN {} ELSE {"delay_notice"})]
        ELSE [d EXCEPT !.t = t1,
                       !.out = ErrorMsg(IF res.err # None THEN res.err ELSE "jira_create_failed",
                                        kb_summary),
                       !.calls = res.calls]

\* mutant: a failed creation is retried once, and the retry succeeds
summary_create_retries(d, answer, channel) ==
    LET res == jira_create(answer, d.t.jira_main)
        again == jira_create("created", d.t.jira_main)
        key == IF res.key # None THEN res.key ELSE again.key
        t1 == [d.t EXCEPT !.jira_main = key]
    IN  [d EXCEPT !.t = t1,
                  !.out = Response(<<"after_main">>, kb_after_main_created(t1)),
                  !.calls = res.calls
                            \cup (IF res.key = None THEN {"jira_create_retry"} ELSE {})
                            \cup (IF channel = "off" THEN {} ELSE {"delay_notice"})]

\* summary|create
summary_create(d, answer, channel) ==
    LET res == jira_create(answer, d.t.jira_main)
    IN  IF res.key # None
        THEN LET t1 == [d.t EXCEPT !.jira_main = res.key]
             IN  [d EXCEPT !.t = t1,
                           !.out = Response(<<"after_main">>, kb_after_main_created(t1)),
                           !.calls = res.calls
                                     \cup (IF channel = "off" THEN {} ELSE {"delay_notice"})]
        ELSE [d EXCEPT !.out = ErrorMsg(IF res.err # None THEN res.err ELSE "jira_create_failed",
                                        kb_summary),
                       !.calls = res.calls]

\* mutant: the RA flow is entered before the issue key is looked at
act_ra_resets_first(d, t_id) ==
    IF t_id # d.t.id THEN d
    ELSE LET d1 == [d EXCEPT !.mode = RA_MODE, !.idx = 0]
             first_key == current_step_key(d1.t, d1.mode, d1.idx)
         IN  IF d.t.jira_main = None
             THEN [d1 EXCEPT !.out = Response(<<"need_main_before_ra">>,
                                              kb_after_main_created(d.t))]
             ELSE [d1 EXCEPT !.out = Response(<<"question", first_key>>, kb_choice(first_key))]

\* mutant: the RA flow is entered without an issue key
act_ra_unguarded(d, t_id) ==
    IF t_id # d.t.id THEN d
    ELSE LET d1 == [d EXCEPT !.mode = RA_MODE, !.idx = 0]
             first_key == current_step_key(d1.t, d1.mode, d1.idx)
         IN  [d1 EXCEPT !.out = Response(<<"question", first_key>>, kb_choice(first_key))]

\* act|ra|t_id
act_ra(d, t_id) ==
    IF t_id # d.t.id THEN d
    ELSE IF d.t.jira_main = None
    THEN [d EXCEPT !.out = Response(<<"need_main_before_ra">>, kb_after_main_created(d.t))]
    ELSE LET d1 == [d EXCEPT !.mode = RA_MODE, !.idx = 0]
             first_key == current_step_key(d1.t, d1.mode, d1.idx)
         IN  [d1 EXCEPT !.out = Response(<<"question", first_key>>, kb_choice(first_key))]

\* T["jira"]["preferred_close_statuses"]
preferred_close_statuses ==
    {"Done", "Closed", "Resolve", "Resolved", "Zakryto", "Zakryt", "Gotovo", "Vypolneno"}

Transition(id, name, to) == [id |-> id, name |-> name, to |-> to]

\* str.strip() on the transition names the modelled tracker answers
StripName(n) == IF n = " Done " THEN "Done" ELSE n

\* bool(x) of an optional string
Truthy(x) == x \notin {None, ""}

\* transition lists the modelled tracker answers
TransitionLists ==
    { <<>>,
      <<Transition("1", "Start", "Open"), Transition("2", "Done", "Done")>>,
      <<Transition("1", "Start", "Open"), Transition("3", "Finish", "Closed"),
        Transition("2", "Done", "Done")>>,
      <<Transition("2", " Done ", "Open"), Transition("1", "Start", "Open")>>,
      <<Transition("1", "Start", "Open"), Transition("4", "Stop", "Paused")>> }

\* jira_get_transitions(issue_key): (transitions, error); no list on an error
TransitionAnswers ==
    {[ok |-> FALSE, list |-> <<>>]} \cup {[ok |-> TRUE, list |-> l] : l \in TransitionLists}

Matches(tr) ==
    StripName(tr.name) \in preferred_close_statuses \/ StripName(tr.to) \in preferred_close_statuses

\* mutant: the last matching transition wins, not the first
best_transition_last_match(transitions) ==
    LET hits == {i \in DOMAIN transitions : Matches(transitions[i])}
        last == IF hits = {} THEN None
                ELSE transitions[CHOOSE i \in hits : \A j \in hits : i >= j].id
    IN  IF ~Truthy(last) /\ transitions # <<>>
        THEN transitions[Len(transitions)].id
        ELSE last

\* close_issue_by_best_transition: the id it applies, None when it applies none
best_transition(transitions) ==
    LET hits == {i \in DOMAIN transitions : Matches(transitions[i])}
        first == IF hits = {} THEN None
                 ELSE transitions[CHOOSE i \in hits : \A j \in hits : i <= j].id
    IN  IF ~Truthy(first) /\ transitions # <<>>
        THEN transitions[Len(transitions)].id
        ELSE first

\* close_issue_by_best_transition(issue_key): (error, calls)
close_issue_by_best_transition(answer, applied) ==
    IF ~answer.ok
    THEN [err |-> "network_error", calls |-> {"jira_get_transitions"}]
    ELSE LET best == best_transition(answer.list)
         IN  IF ~Truthy(best)
             THEN [err |-> "no_transitions", calls |-> {"jira_get_transitions"}]
             ELSE [err |-> IF applied = "ok" THEN None ELSE "http_error",
                   calls |-> {"jira_get_transitions", "jira_do_transition:" \o best}]

\* mutant: a close that fails forgets the issue key
act_close_drops_key(d, t_id, answer, applied) ==
    IF t_id # d.t.id THEN d
    ELSE IF d.t.jira_main = None
    THEN [d EXCEPT !.out = Response(<<"need_main_issue">>, {})]
    ELSE LET res == close_issue_by_best_transition(answer, applied)
         IN  IF res.err # None
             THEN [d EXCEPT !.t = [d.t EXCEPT !.jira_main = None],
                            !.out = ErrorMsg(res.err, {}), !.calls = res.calls]
             ELSE [d EXCEPT !.out = Response(<<"issue_closed">>, {}),
                            !.calls = res.calls
                                      \cup (IF d.t.ra_chat_id # None
                                            THEN {"set_chat_permissions"} ELSE {})]

\* mutant: the key is not looked at before the tracker is asked
act_close_unguarded(d, t_id, answer, applied) ==
    IF t_id # d.t.id THEN d
    ELSE LET res == close_issue_by_best_transition(answer, applied)
         IN  IF res.err # None
             THEN [d EXCEPT !.out = ErrorMsg(res.err, {}), !.calls = res.calls]
             ELSE [d EXCEPT !.out = Response(<<"issue_closed">>, {}),
                            !.calls = res.calls
                                      \cup (IF d.t.ra_chat_id # None
                                            THEN {"set_chat_permissions"} ELSE {})]

\* act|close|t_id
act_close(d, t_id, answer, applied) ==
    IF t_id # d.t.id THEN d
    ELSE IF d.t.jira_main = None
    THEN [d EXCEPT !.out = Response(<<"need_main_issue">>, {})]
    ELSE LET res == close_issue_by_best_transition(answer, applied)
         IN  IF res.err # None
             THEN [d EXCEPT !.out = ErrorMsg(res.err, {}), !.calls = res.calls]
             ELSE [d EXCEPT !.out = Response(<<"issue_closed">>, {}),
                            !.calls = res.calls
                                      \cup (IF d.t.ra_chat_id # None
                                            THEN {"set_chat_permissions"} ELSE {})]

(***************************************************************************)
(* Inputs of the modelled user.                                            *)
(***************************************************************************)
\* a primary plate with a 3-digit block, typed in lower-case Latin with a blank
Plate3Text == <<"a", "1", "2", "3", "x", "x", " ", "7", "7">>

\* a primary plate with a 4-digit block
Plate4Text == <<"c", "1", "2", "3", "4", "T", "y", "7", "7", "7">>

\* a trailer plate: two letters, four digits, region
PlateRefText == <<"a", "B", "1", "2", "3", "4", "7", "7">>

BlankText == <<" ">>

FreeText == <<" ", "h", "i">>

\* the texts typed while a step of the given input kind is awaited
TextsFor(kind) ==
    IF kind \in {"plate", "plate_ref"}
    THEN {Plate3Text, Plate4Text, PlateRefText, BlankText}
    ELSE {FreeText, BlankText}

\* the option buttons the modelled user presses for a choice field
PressedValues(key) ==
    CASE key \in {"incident_type", "brand"} -> Range(CHOICE_OPTIONS(key))
      [] key = "incident_source" -> {"DRIVER_CALL", INCIDENT_SOURCE_CUSTOM_VALUE}
      [] OTHER -> {CHOICE_OPTIONS(key)[1]}

CHOICE_KEYS == {k \in STEP_KEYS : STEP_INPUT_KIND(k) = "choice"}

\* the vehicle classes whose buttons the modelled user presses
PressedKinds == {"light"}

\* keys the back and skip buttons of the keyboards carry
NAV_KEYS == STEP_KEYS \ {"incident_type"}

\* no gateway and no channel configured
QuietEnv ==
    [gw |-> "disabled", invite |-> "ok", title |-> "ok", post |-> "ok",
     notify |-> "off", dispatch |-> "off"]

\* the gateway provisions a chat and every call succeeds
ChatEnv ==
    [gw |-> "chat", invite |-> "ok", title |-> "ok", post |-> "ok",
     notify |-> "ok", dispatch |-> "ok"]

\* the collaborators' answers the session is explored under
SessionEnvs == {QuietEnv, ChatEnv}

SessionJiraAnswers == {"created", "network_error"}

SessionChannels == {"off", "ok"}

SessionTransitions ==
    {[ok |-> FALSE, list |-> <<>>], [ok |-> TRUE, list |-> <<>>],
     [ok |-> TRUE, list |-> <<Transition("1", "Start", "Open"), Transition("2", "Done", "Done")>>]}

\* the collaborators matter only to a handler run that completes the RA flow
EnvsFor(completes) == IF completes THEN SessionEnvs ELSE {QuietEnv}

(***************************************************************************)
(* The state machine.                                                      *)
(***************************************************************************)
Init ==
    /\ hasTicket = FALSE
    /\ ticket = Ticket(None)
    /\ step_idx = 0
    /\ mode = PRIMARY_MODE
    /\ editing = FALSE
    /\ custom = FALSE
    /\ out = NoResponse
    /\ calls = {}
    /\ detours = 0
    /\ user_data = [u \in Users |-> NoDraft]
    /\ alone = [u \in Users |-> NoDraft]
    /\ running = {}

\* the draft a handler leaves becomes the session's draft
Commit(r) ==
    /\ hasTicket' = TRUE
    /\ ticket' = r.t
    /\ step_idx' = r.idx
    /\ mode' = r.mode
    /\ editing' = r.editing
    /\ custom' = r.custom
    /\ out' = r.out
    /\ calls' = r.calls
    /\ UNCHANGED <<user_data, alone, running>>

\* a callback query with data tok, handled into draft r; cost is 1 for a
\* skip, a back or a pick of a field to edit
Cost(tok, cost) == IF tok \in out.kb THEN cost ELSE 1

Affordable(tok, cost) == hasTicket /\ detours + Cost(tok, cost) <= MaxDetours

Press(tok, cost, r) ==
    /\ Affordable(tok, cost)
    /\ detours' = detours + Cost(tok, cost)
    /\ Commit(r)

\* /start
CmdStart ==
    /\ Commit(start_new_draft(CurrentId))
    /\ UNCHANGED detours

\* a text message while the draft holds no ticket
OnTextNoTicket ==
    /\ ~hasTicket
    /\ Commit(start_new_draft(CurrentId))
    /\ UNCHANGED detours

\* a callback query while the draft holds no ticket
OnCallbackNoTicket ==
    /\ ~hasTicket
    /\ Commit(start_new_draft(CurrentId))
    /\ UNCHANGED detours

\* the response on screen asks for a text
TextAwaited ==
    \/ out.text \in {<<"question", k>> : k \in TEXT_KEYS \cup PLATE_KEYS}
    \/ out.text \in {<<"error", e>> : e \in {"plate_invalid", "plate_ref_invalid", "empty_text"}}
    \/ out.text = <<"incident_source_other_prompt">>

\* a text message; typing when no text is awaited is a detour
OnText ==
    LET c == IF TextAwaited THEN 0 ELSE 1
    IN  /\ hasTicket
        /\ detours + c <= MaxDetours
        /\ detours' = detours + c
        /\ \E raw \in TextsFor(STEP_INPUT_KIND(current_step_key(ticket, mode, step_idx))) :
              Commit(on_text(Cur, raw))

VehAdjust ==
    /\ \E action \in {"plus", "minus"}, kind \in PressedKinds :
          /\ action = "plus" =>
                (kind \in DOMAIN ticket.dtp_vehicles => ticket.dtp_vehicles[kind] < MaxCount)
          /\ Press(<<"veh", action, kind>>, 0, veh_adjust(Cur, action, kind))

VehDone ==
    /\ Press(<<"veh", "done">>, 0, veh_done(Cur))

NavBack ==
    /\ \E cur_key \in NAV_KEYS : Press(BtnBack(cur_key), 1, nav_back(Cur, cur_key))

NavSkip ==
    /\ \E cur_key \in NAV_KEYS :
          /\ Affordable(BtnSkip(cur_key), 1)
          /\ \E env \in EnvsFor(nav_skip(Cur, cur_key, QuietEnv).mode # mode) :
                Press(BtnSkip(cur_key), 1, nav_skip(Cur, cur_key, env))

SetField ==
    /\ \E field_key \in CHOICE_KEYS :
          \E value \in PressedValues(field_key) :
              /\ Affordable(<<"set", field_key, value>>, 0)
              /\ \E env \in EnvsFor(set_field(Cur, field_key, value, QuietEnv).mode # mode) :
                    Press(<<"set", field_key, value>>, 0, set_field(Cur, field_key, value, env))

SummaryEdit ==
    /\ Press(<<"summary", "edit">>, 0, summary_edit(Cur))

EditCancel ==
    /\ Press(<<"edit", "cancel">>, 0, edit_cancel(Cur))

EditField ==
    /\ \E field_key \in STEP_KEYS : Press(<<"edit", "field", field_key>>, 1, edit_field(Cur, field_key))

Dispatch ==
    /\ \E t_id \in TicketIds, channel \in SessionChannels :
          Press(<<"dispatch", t_id>>, 0, dispatch(Cur, t_id, channel))

SummaryCreate ==
    /\ \E answer \in SessionJiraAnswers, channel \in SessionChannels :
          Press(<<"summary", "create">>, 0, summary_create(Cur, answer, channel))

ActRa ==
    /\ \E t_id \in TicketIds : Press(<<"act", "ra", t_id>>, 0, act_ra(Cur, t_id))

ActClose ==
    /\ \E t_id \in TicketIds, answer \in SessionTransitions, applied \in {"ok", "error"} :
          Press(<<"act", "close", t_id>>, 0, act_close(Cur, t_id, answer, applied))

Next ==
    \/ CmdStart
    \/ OnTextNoTicket
    \/ OnCallbackNoTicket
    \/ OnText
    \/ VehAdjust
    \/ VehDone
    \/ NavBack
    \/ NavSkip
    \/ SetField
    \/ SummaryEdit
    \/ EditCancel
    \/ EditField
    \/ Dispatch
    \/ SummaryCreate
    \/ ActRa
    \/ ActClose

Spec == Init /\ [][Next]_vars

(***************************************************************************)
(* Answers.  What counts as an accepted answer to a step.                  *)
(***************************************************************************)
\* the option values of a choice field that store a value when pressed
AnswerValues(key) == Range(CHOICE_OPTIONS(key)) \ {INCIDENT_SOURCE_CUSTOM_VALUE}

AllTexts == {Plate3Text, Plate4Text, PlateRefText, BlankText, FreeText}

\* on_text stores the text raw for the current step of draft d
TextAccepted(d, raw) ==
    LET key == current_step_key(d.t, d.mode, d.idx)
        kind == STEP_INPUT_KIND(key)
    IN  CASE kind = "plate" -> normalize_vats_plate(Strip(raw), d.t.brand) # NoPlate
          [] kind = "plate_ref" -> normalize_ref_plate(Strip(raw)) # NoPlate
          [] kind = "text" \/ (key = "incident_source" /\ d.custom) -> Strip(raw) # <<>>
          [] OTHER -> FALSE

\* the drafts the accepted answers to the current step of draft d lead to
AcceptedResults(d) ==
    LET key == current_step_key(d.t, d.mode, d.idx)
        envs == IF finish_ra_flow_if_needed(d) THEN RaEnvs ELSE {QuietEnv}
    IN  {set_field(d, key, v, env) : v \in AnswerValues(key), env \in envs}
        \cup {on_text(d, raw) : raw \in {x \in AllTexts : TextAccepted(d, x)}}
        \cup (IF key = "dtp_vehicles" THEN {veh_done(d)} ELSE {})

\* the draft fields of the state and of draft r agree
SameDraft(r) ==
    /\ r.t = ticket
    /\ r.idx = step_idx
    /\ r.mode = mode
    /\ r.editing = editing
    /\ r.custom = custom

(***************************************************************************)
(* Claims.                                                                 *)
(***************************************************************************)
\* C1: outside editing, an accepted answer to the current step (the step
\* current_step_key returns) leads to the preview when the step is the last
\* one in PRIMARY mode, to the secondary-completion when it is the last one
\* in RA mode, and otherwise moves the cursor forward by exactly one step of
\* the recomputed list.
C1_AnswerOutcome ==
    (hasTicket /\ ~editing) =>
        LET cursor == ClampIdx(ticket, mode, step_idx)
            last == is_last_step(ticket, mode, cursor)
        IN  \A r \in AcceptedResults(Cur) :
                IF last /\ mode = PRIMARY_MODE
                THEN r.out = Preview /\ r.idx = cursor /\ r.mode = PRIMARY_MODE
                ELSE IF last /\ mode = RA_MODE
                THEN /\ r.mode = PRIMARY_MODE
                     /\ r.idx = 0
                     /\ r.out.text \in {<<"after_ra">>, <<"none">>}
                ELSE /\ r.mode = mode
                     /\ r.idx = cursor + 1
                     /\ r.idx < Len(active_steps(r.t, r.mode))
                     /\ r.out.text = <<"question", active_steps(r.t, r.mode)[r.idx + 1]>>

\* every step was answered on its prompt, through the preview and the
\* creation, up to the completion of the RA flow
C1_Witness ==
    /\ detours = 0
    /\ ~editing
    /\ out.text = <<"after_ra">>
    /\ ticket.notes # None
    /\ ticket.ra_need_evacuation # None

\* the brand rules: the set changes a set brand, or sets SITRAK with no trailer plate
BrandRule(d, key, value) ==
    key = "brand" /\ (d.t.brand \notin {None, value} \/ (value = "SITRAK" /\ d.t.plate_ref = NoPlate))

\* the trailer plate is asked after the primary plate of a SITRAK that has none
PlateRule(d) ==
    /\ current_step_key(d.t, d.mode, d.idx) = "plate_vats"
    /\ d.t.brand = "SITRAK"
    /\ d.t.plate_ref = NoPlate

\* C2: while editing in PRIMARY mode, an accepted answer to any field but the
\* vehicle count, outside the brand rules, returns to the preview with
\* editing cleared in that same action, whatever the cursor; a vehicle-count
\* increment or decrement keeps the session editing on its counter prompt,
\* and done returns to the preview with editing cleared.
C2_EditingExit ==
    (hasTicket /\ editing /\ mode = PRIMARY_MODE) =>
        /\ \A key \in CHOICE_KEYS : \A v \in AnswerValues(key) :
              ~BrandRule(Cur, key, v) =>
                  LET r == set_field(Cur, key, v, QuietEnv)
                  IN  r.out = Preview /\ ~r.editing /\ r.mode = PRIMARY_MODE
        /\ \A raw \in AllTexts :
              (TextAccepted(Cur, raw) /\ ~PlateRule(Cur)) =>
                  LET r == on_text(Cur, raw)
                  IN  r.out = Preview /\ ~r.editing /\ r.mode = PRIMARY_MODE
        /\ \A action \in {"plus", "minus"}, kind \in VEHICLE_KINDS :
              LET r == veh_adjust(Cur, action, kind)
              IN  /\ r.editing
                  /\ r.mode = PRIMARY_MODE
                  /\ r.idx = step_idx
                  /\ r.out.text = <<"question", "dtp_vehicles">>
        /\ LET r == veh_done(Cur)
           IN  r.out = Preview /\ ~r.editing /\ r.mode = PRIMARY_MODE

\* the incident type of a collision ticket was picked for editing and
\* answered: the preview is back with the cursor still on the edited step
C2_Witness ==
    /\ out = Preview
    /\ ~editing
    /\ mode = PRIMARY_MODE
    /\ step_idx = 0
    /\ ticket.incident_type = "BREAK"
    /\ ticket.dtp_type # None
    /\ ticket.notes # None

\* C3: act|ra on a ticket without an issue key is rejected with the fixed
\* message, makes no gateway call and leaves ticket, cursor, mode and flags
\* as they were.
C3_RaRejected ==
    (hasTicket /\ ticket.jira_main = None) =>
        LET r == act_ra(Cur, ticket.id)
        IN  /\ r.out.text = <<"need_main_before_ra">>
            /\ r.calls = {}
            /\ SameDraft(r)

\* the rejection was rendered in the middle of the collection
C3_Witness ==
    /\ out.text = <<"need_main_before_ra">>
    /\ ticket.jira_main = None
    /\ step_idx > 0
    /\ mode = PRIMARY_MODE

\* the calls of a secondary-completion
CompletionCalls ==
    {"create_chat", "create_chat_invite_link", "set_chat_title", "post_summary",
     "notify_help_with_link", "notify_help_without_link", "ra_notice"}

\* C4: in every reachable state RA mode implies an issue key, and the
\* secondary-completion (its result view, its provisioning and notification
\* calls) has only run for a ticket with an issue key.
C4_RaNeedsKey ==
    /\ mode = RA_MODE => ticket.jira_main # None
    /\ out.text = <<"after_ra">> => ticket.jira_main # None
    /\ (calls \cap CompletionCalls) \ {"create_chat_invite_link"} # {} => ticket.jira_main # None

\* the RA flow is under way
C4_Witness ==
    /\ detours = 0
    /\ mode = RA_MODE
    /\ step_idx > 0
    /\ ticket.jira_main \in JiraKeys

\* C5: the issue key of a ticket is assigned at most once: a step taken
\* with a key stored neither calls the tracker's create operation nor
\* replaces the stored key by another one.
C5_KeyAssignedOnce ==
    [][ticket.jira_main # None =>
          /\ "jira_create" \notin calls'
          /\ ticket'.jira_main \in {ticket.jira_main, None}]_vars

\* the step is a start: the session holds a new ticket on its first prompt
StartStep ==
    /\ ticket' = Ticket(CurrentId)
    /\ step_idx' = 0
    /\ mode' = PRIMARY_MODE
    /\ ~editing'
    /\ out' = start_new_draft(CurrentId).out

\* C6: a ticket's issue key, once set, is never unset: only a start, which
\* puts a new ticket into the session, leaves the session without a key.
C6_KeyNeverCleared ==
    [][(ticket.jira_main # None /\ ticket'.jira_main = None) => StartStep]_vars

\* a creation failed on a ticket that holds a key, and the key is still there
C6_Witness ==
    /\ ticket.jira_main \in JiraKeys
    /\ out = ErrorMsg("network_error", kb_summary)
    /\ calls = {"jira_create"}

\* a ticket holding nothing but the given incident type and brand
KeyTicket(incident_type, brand) ==
    [Ticket(None) EXCEPT !.incident_type = incident_type, !.brand = brand]

\* the number of places of s that hold x
Count(s, x) == Cardinality({i \in DOMAIN s : s[i] = x})

\* C7: the primary step list is a function of (incident_type, brand) alone,
\* and it holds plate_ref, once, right after plate_vats, exactly when the
\* brand is SITRAK.
C7_PrimaryListByBrand ==
    hasTicket =>
        LET steps == active_steps(ticket, PRIMARY_MODE)
        IN  /\ steps = active_steps(KeyTicket(ticket.incident_type, ticket.brand), PRIMARY_MODE)
            /\ "plate_ref" \in Range(steps) <=> ticket.brand = "SITRAK"
            /\ Count(steps, "plate_vats") = 1
            /\ ticket.brand = "SITRAK" =>
                  /\ Count(steps, "plate_ref") = 1
                  /\ IndexOf(steps, "plate_ref") = IndexOf(steps, "plate_vats") + 1

\* the trailer plate of a SITRAK is asked right after its primary plate
C7_Witness ==
    /\ detours = 0
    /\ mode = PRIMARY_MODE
    /\ ticket.brand = "SITRAK"
    /\ ticket.plate_vats # NoPlate
    /\ ticket.plate_ref = NoPlate
    /\ out.text = <<"question", "plate_ref">>
    /\ current_step_key(ticket, mode, step_idx) = "plate_ref"

\* C8: the primary list holds dtp_type, dtp_vehicles and dtp_damage_text
\* exactly when the incident type is DTP and break_symptoms exactly when it
\* is not; the RA list holds the three common flags always and
\* ra_need_dtp_formalization and ra_called_112 exactly when the type is DTP.
C8_ListsByIncidentType ==
    hasTicket =>
        LET primary == Range(active_steps(ticket, PRIMARY_MODE))
            ra == Range(active_steps(ticket, RA_MODE))
            dtp == ticket.incident_type = "DTP"
        IN  /\ \A k \in {"dtp_type", "dtp_vehicles", "dtp_damage_text"} : k \in primary <=> dtp
            /\ "break_symptoms" \in primary <=> ~dtp
            /\ {"ra_need_diagnosis", "ra_need_repair", "ra_need_evacuation"} \subseteq ra
            /\ \A k \in {"ra_need_dtp_formalization", "ra_called_112"} : k \in ra <=> dtp
            /\ ra \subseteq RA_KEYS
            /\ primary \cap RA_KEYS = {}

\* the RA flow of a collision ticket asks its last, collision-only flag
C8_Witness ==
    /\ detours = 0
    /\ mode = RA_MODE
    /\ ticket.incident_type = "DTP"
    /\ ticket.dtp_damage_text # None
    /\ out.text = <<"question", "ra_called_112">>

\* the draft after the answers of the scenario, given in order from draft d:
\* incident type BREAK, a source, brand KIA_CEED, the plate, and the texts
Scenario(d, source, obstacle) ==
    LET d1 == set_field(d, "incident_type", "BREAK", QuietEnv)
        d2 == set_field(d1, "incident_source", source, QuietEnv)
        d3 == set_field(d2, "brand", "KIA_CEED", QuietEnv)
        d4 == on_text(d3, Plate3Text)
        d5 == on_text(d4, FreeText)
        d6 == on_text(d5, FreeText)
        d7 == on_text(d6, FreeText)
        d8 == set_field(d7, "obstacle_on_road", obstacle, QuietEnv)
        d9 == on_text(d8, FreeText)
    IN  <<d1, d2, d3, d4, d5, d6, d7, d8, d9>>

ScenarioOrder ==
    <<"incident_type", "incident_source", "brand", "plate_vats", "location",
      "break_symptoms", "problem_desc", "obstacle_on_road", "notes">>

\* the session holds a fresh draft on its first prompt
FreshDraft ==
    /\ hasTicket
    /\ ticket = Ticket(CurrentId)
    /\ step_idx = 0
    /\ mode = PRIMARY_MODE
    /\ ~editing
    /\ ~custom

\* C9: from a fresh draft, BREAK and KIA_CEED and a valid answer to each of
\* the nine steps in order are each asked for in turn and end on the
\* preview; a creation the tracker answers with a key stores that key and
\* shows the view that offers exactly act|ra and act|close.
C9_EndToEnd ==
    FreshDraft =>
        \A source \in AnswerValues("incident_source"), obstacle \in AnswerValues("obstacle_on_road") :
            LET run == Scenario(Cur, source, obstacle)
                end == run[Len(run)]
            IN  /\ \A k \in 1..(Len(run) - 1) :
                      /\ run[k].out.text = <<"question", ScenarioOrder[k + 1]>>
                      /\ current_step_key(run[k].t, run[k].mode, run[k].idx) = ScenarioOrder[k + 1]
                      /\ run[k].t[ScenarioOrder[k]] # Unset(ScenarioOrder[k])
                /\ end.out = Preview
                /\ end.t.notes # None
                /\ end.t.jira_main = None
                /\ \A channel \in ChannelOutcomes :
                      LET made == summary_create(end, "created", channel)
                      IN  /\ made.t.jira_main \in JiraKeys
                          /\ made.t = [end.t EXCEPT !.jira_main = made.t.jira_main]
                          /\ "jira_create" \in made.calls
                          /\ made.out.text = <<"after_main">>
                          /\ made.out.kb = {<<"act", "ra", ticket.id>>, <<"act", "close", ticket.id>>}

\* the scenario was played on the prompts and the issue created
C9_Witness ==
    /\ detours = 0
    /\ out.text = <<"after_main">>
    /\ "jira_create" \in calls
    /\ ticket = [Scenario(start_new_draft(CurrentId), "DRIVER_CALL", "YES")[9].t
                    EXCEPT !.jira_main = "K1"]

PlateStillValid(t, brand) ==
    t.plate_vats = NoPlate \/ normalize_vats_plate(t.plate_vats, brand) = t.plate_vats

ViewLines ==
    CASE out.text = <<"preview">> -> render_preview_block(ticket)
      [] out.text = <<"after_main">> -> render_after_main(ticket)
      [] out.text = <<"after_ra">> -> render_after_ra(ticket)
      [] OTHER -> <<>>

\* C12: in every reachable state whose brand is not SITRAK, no primary
\* summary (the preview, the view after the creation, the view after the RA
\* flow, the tracker description, the view on screen) has a trailer-plate
\* line, whatever plate_ref holds.
C12_NoStaleTrailerPlate ==
    (hasTicket /\ ticket.brand # "SITRAK") =>
        /\ "plate_ref" \notin Range(render_primary_block(ticket))
        /\ "plate_ref" \notin Range(render_preview_block(ticket))
        /\ "plate_ref" \notin Range(render_after_main(ticket))
        /\ "plate_ref" \notin Range(render_after_ra(ticket))
        /\ "plate_ref" \notin Range(build_fields_main(ticket))
        /\ "plate_ref" \notin Range(ViewLines)

\* the preview of a ticket that still stores the trailer plate typed under
\* SITRAK, after its brand was skipped
C12_Witness ==
    /\ out = Preview
    /\ ticket.brand # "SITRAK"
    /\ ticket.plate_ref # NoPlate
    /\ ticket.plate_vats # NoPlate

\* the forced prompt of the trailer plate: the cursor is on plate_ref, the
\* session is still editing, and the keyboard offers back and no skip
ForcedPlateRef(r) ==
    /\ r.editing
    /\ r.mode = PRIMARY_MODE
    /\ r.t.brand = "SITRAK"
    /\ r.t.plate_ref = NoPlate
    /\ active_steps(r.t, r.mode)[r.idx + 1] = "plate_ref"
    /\ r.out.text = <<"question", "plate_ref">>
    /\ r.out.kb = {BtnBack("plate_ref")}

\* C13 as stated: while editing in PRIMARY mode, a set of brand to SITRAK,
\* or an accepted plate_vats under SITRAK, with plate_ref left unset by it,
\* force-jumps to plate_ref on a prompt without skip.
C13_BranchInsertionOriginal ==
    (hasTicket /\ editing /\ mode = PRIMARY_MODE) =>
        /\ LET r == set_field(Cur, "brand", "SITRAK", QuietEnv)
           IN  r.t.plate_ref = NoPlate => ForcedPlateRef(r)
        /\ \A raw \in AllTexts :
              (TextAccepted(Cur, raw) /\ PlateRule(Cur)) => ForcedPlateRef(on_text(Cur, raw))

\* C13: while editing in PRIMARY mode with plate_ref unset, a set of brand
\* to SITRAK when the brand was unset or SITRAK already, and an accepted
\* plate_vats under SITRAK, force-jump to plate_ref on a prompt without
\* skip; a set that changes the brand from another value to SITRAK asks for
\* plate_vats first, still editing, and the accepted plate then force-jumps
\* to plate_ref.
C13_BranchInsertion ==
    (hasTicket /\ editing /\ mode = PRIMARY_MODE) =>
        /\ LET r == set_field(Cur, "brand", "SITRAK", QuietEnv)
           IN  IF ticket.brand \in {None, "SITRAK"}
               THEN ticket.plate_ref = NoPlate => ForcedPlateRef(r)
               ELSE /\ r.editing
                    /\ r.out.text = <<"question", "plate_vats">>
                    /\ active_steps(r.t, r.mode)[r.idx + 1] = "plate_vats"
                    /\ \A raw \in AllTexts :
                          TextAccepted(r, raw) => ForcedPlateRef(on_text(r, raw))
        /\ \A raw \in AllTexts :
              (TextAccepted(Cur, raw) /\ PlateRule(Cur)) => ForcedPlateRef(on_text(Cur, raw))

\* the brand was picked for editing and changed to SITRAK, the plate was
\* typed again, and the trailer plate is asked for without a skip button
C13_Witness ==
    /\ ForcedPlateRef([Cur EXCEPT !.out = out])
    /\ ticket.plate_vats # NoPlate
    /\ ticket.notes # None

\* the step asked after the plates
AfterPlates(t) == IF t.incident_type = "DTP" THEN "dtp_vehicles" ELSE "location"

\* C14: outside editing, back from a step f of the active list puts the
\* cursor on the element before f in the list recomputed from the ticket
\* and the mode (on index 0 when f is the first) and asks for it; back from
\* plate_ref lands on plate_vats, and back from the step after the plates
\* lands on plate_ref exactly when the brand is SITRAK.  Back while editing
\* shows the preview, clears the flag and changes no Ticket field.
C14_BackNavigation ==
    hasTicket =>
        LET steps == active_steps(ticket, mode)
        IN  /\ ~(editing /\ mode = PRIMARY_MODE) =>
                  /\ \A f \in Range(steps) :
                        LET r == nav_back(Cur, f)
                        IN  /\ r.idx = Max(0, IndexOf(steps, f) - 1)
                            /\ r.out = Ask(active_steps(r.t, r.mode)[r.idx + 1])
                            /\ r.t = ticket
                            /\ r.mode = mode
                            /\ r.editing = editing
                  /\ mode = PRIMARY_MODE =>
                        LET r == nav_back(Cur, AfterPlates(ticket))
                        IN  /\ ticket.brand = "SITRAK" =>
                                  /\ steps[r.idx + 1] = "plate_ref"
                                  /\ steps[nav_back(Cur, "plate_ref").idx + 1] = "plate_vats"
                            /\ ticket.brand # "SITRAK" => steps[r.idx + 1] = "plate_vats"
            /\ (editing /\ mode = PRIMARY_MODE) =>
                  \A f \in STEP_KEYS :
                      LET r == nav_back(Cur, f)
                      IN  /\ r.out = Preview
                          /\ r.t = ticket
                          /\ ~r.editing
                          /\ r.mode = PRIMARY_MODE
                          /\ r.idx = step_idx

\* back was pressed on the step after the plates of a SITRAK: the trailer
\* plate, already stored, is asked for again
C14_Witness ==
    /\ ~editing
    /\ mode = PRIMARY_MODE
    /\ detours = 1
    /\ ticket.brand = "SITRAK"
    /\ ticket.plate_ref # NoPlate
    /\ ticket.location = None
    /\ out = Ask("plate_ref")
    /\ current_step_key(ticket, mode, step_idx) = "plate_ref"

\* the cursor idx is an index of the active list of ticket t in mode m
InRange(t, m, idx) == idx \in 0..(Len(active_steps(t, m)) - 1)

CursorHandlers ==
    AcceptedResults(Cur)
    \cup {on_text(Cur, raw) : raw \in AllTexts}
    \cup {set_field(Cur, key, v, QuietEnv) :
             key \in {"incident_type", "brand"}, v \in {"DTP", "BREAK", "KIA_CEED", "SITRAK"}}
    \cup (IF editing /\ mode = PRIMARY_MODE THEN {} ELSE {nav_back(Cur, f) : f \in NAV_KEYS})
    \cup {edit_field(Cur, f) : f \in Range(active_steps(ticket, mode)) \cap Range(_steps_for_primary(ticket))}
    \cup (IF ticket.jira_main # None THEN {act_ra(Cur, ticket.id)} ELSE {})

ReturnResults ==
    AcceptedResults(Cur)
    \cup {nav_skip(Cur, k, QuietEnv) : k \in NAV_KEYS}
    \cup {nav_back(Cur, k) : k \in NAV_KEYS}
    \cup {veh_done(Cur)}

\* C16: the editing flag is set only while a single-field patch is in
\* progress: it is clear whenever the preview is on screen, whenever an
\* answer, a skip, a back or the counter's done has just returned to the
\* preview, and through the creation and the RA flow.
C16_EditingTransient ==
    hasTicket =>
        /\ out = Preview => ~editing
        /\ out.text \in {<<"after_main">>, <<"after_ra">>} => ~editing
        /\ mode = RA_MODE => ~editing
        /\ \A r \in ReturnResults : r.out = Preview => ~r.editing

\* C17: a skip of field f stores the neutral value of f (the empty mapping
\* for dtp_vehicles, unset for any other field), and a second skip of f
\* right after the first leaves the Ticket as the first left it.
C17_SkipIdempotent ==
    hasTicket =>
        \A f \in NAV_KEYS : \A e1 \in SessionEnvs, e2 \in SessionEnvs :
            LET once == nav_skip(Cur, f, e1)
                twice == nav_skip(once, f, e2)
            IN  /\ once.t[f] = Unset(f)
                /\ twice.t[f] = Unset(f)
                /\ twice.t = once.t

\* drafts s and r agree on cursor, mode, editing flag and displayed view
SameOutcome(s, r) ==
    /\ s.idx = r.idx
    /\ s.mode = r.mode
    /\ s.editing = r.editing
    /\ s.out = r.out

\* C18: a skip of the current step ends with the cursor, mode, editing flag
\* and view an accepted answer to that step ends with in the same draft
\* (the brand rules of the answer aside): the preview with editing cleared
\* while editing, the preview on the last PRIMARY step, the
\* secondary-completion on the last RA step, else the next step.
C18_SkipLikeAnswer ==
    hasTicket =>
        LET key == current_step_key(ticket, mode, step_idx)
        IN  key \in NAV_KEYS =>
                \A env \in SessionEnvs :
                    LET s == nav_skip(Cur, key, env)
                    IN  /\ \A v \in AnswerValues(key) :
                              ~BrandRule(Cur, key, v) =>
                                  SameOutcome(s, set_field(Cur, key, v, env))
                        /\ \A raw \in AllTexts :
                              (TextAccepted(Cur, raw) /\ ~PlateRule(Cur)) =>
                                  SameOutcome(s, on_text(Cur, raw))
                        /\ key = "dtp_vehicles" => SameOutcome(s, veh_done(Cur))

\* the texts that are no valid answer to a step of the given key under the
\* given brand: no plate of the pattern, or nothing but blanks
Malformed(key, brand) ==
    CASE key = "plate_vats" ->
            {BlankText, FreeText, PlateRefText}
            \cup (IF brand = "KIA_CEED" THEN {Plate4Text} ELSE {})
      [] key = "plate_ref" -> {BlankText, FreeText, Plate3Text, Plate4Text}
      [] OTHER -> {BlankText}

\* the error a malformed text is answered with
ErrorFor(key) ==
    CASE key = "plate_vats" -> "plate_invalid"
      [] key = "plate_ref" -> "plate_ref_invalid"
      [] OTHER -> "empty_text"

\* C19: a text that fails the validation of the awaited step (a plate or a
\* trailer plate off its pattern, a blank text for a text field or for the
\* free-text source) is answered with the step's error message under the
\* step's navigation keyboard, and changes no Ticket field, no flag and not
\* the mode; the cursor stays on the step.
C19_ValidationError ==
    hasTicket =>
        LET key == current_step_key(ticket, mode, step_idx)
            awaited == \/ STEP_INPUT_KIND(key) \in {"plate", "plate_ref", "text"}
                       \/ (key = "incident_source" /\ custom)
        IN  awaited =>
                \A raw \in AllTexts :
                    LET r == on_text(Cur, raw)
                    IN  /\ TextAccepted(Cur, raw) <=> raw \notin Malformed(key, ticket.brand)
                        /\ raw \in Malformed(key, ticket.brand) =>
                              /\ r.out = ErrorMsg(ErrorFor(key), kb_nav(key, TRUE))
                              /\ r.calls = {}
                              /\ r.t = ticket
                              /\ r.mode = mode
                              /\ r.editing = editing
                              /\ r.custom = custom
                              /\ r.idx <= step_idx
                              /\ current_step_key(r.t, r.mode, r.idx) = key

\* the plate of a KIA_CEED was picked for editing and a 4-digit plate typed:
\* the error is on screen, the stored plate is kept and the session edits on
C19_Witness ==
    /\ out = ErrorMsg("plate_invalid", kb_nav("plate_vats", TRUE))
    /\ editing
    /\ mode = PRIMARY_MODE
    /\ ticket.brand = "KIA_CEED"
    /\ ticket.plate_vats = Compact(Plate3Text)
    /\ current_step_key(ticket, mode, step_idx) = "plate_vats"

\* the session collects, not editing, with the cursor on the vehicle count
OnCounterStep ==
    /\ hasTicket
    /\ ~editing
    /\ mode = PRIMARY_MODE
    /\ current_step_key(ticket, mode, step_idx) = "dtp_vehicles"

\* the drafts the counter adjustments lead to
AdjustResults ==
    {veh_adjust(Cur, action, kind) : action \in {"plus", "minus"}, kind \in VEHICLE_KINDS}

\* the drafts every action but an adjustment, done, a skip, a back and a
\* pick of a field to edit leads to
PlainResults ==
    {on_text(Cur, raw) : raw \in AllTexts}
    \cup UNION {{set_field(Cur, key, v, QuietEnv) : v \in Range(CHOICE_OPTIONS(key))} :
                  key \in CHOICE_KEYS}
    \cup {summary_edit(Cur), edit_cancel(Cur)}
    \cup {summary_create(Cur, answer, "off") : answer \in JiraAnswers}
    \cup {act_ra(Cur, id) : id \in TicketIds}
    \cup {act_close(Cur, id, answer, "ok") : id \in TicketIds, answer \in SessionTransitions}
    \cup {dispatch(Cur, id, channel) : id \in TicketIds, channel \in ChannelOutcomes}

SkipResults == {nav_skip(Cur, f, QuietEnv) : f \in NAV_KEYS}

BackResults == {nav_back(Cur, f) : f \in NAV_KEYS}

PickResults == {edit_field(Cur, f) : f \in STEP_KEYS}

MaxVeh == 3

\* ticket.dtp_vehicles.get(kind, 0)
VehCount(t, kind) == IF kind \in DOMAIN t.dtp_vehicles THEN t.dtp_vehicles[kind] ELSE 0

\* the steps of a DTP that come before the counter
BeforeCounter ==
    {"incident_type", "incident_source", "dtp_type", "brand", "plate_vats", "plate_ref"}

\* the first message of the session
VehStart ==
    /\ ~hasTicket
    /\ Commit(start_new_draft(CurrentId))
    /\ UNCHANGED detours

\* an answer to the prompt on screen, on the way to the counter of a DTP
VehAnswer ==
    /\ hasTicket
    /\ current_step_key(ticket, mode, step_idx) \in BeforeCounter
    /\ \E r \in AcceptedResults(Cur) :
          /\ r.t.incident_type = "DTP"
          /\ r.t.incident_source \in {None, "DRIVER_CALL"}
          /\ Commit(r)
    /\ UNCHANGED detours

\* veh|plus|kind and veh|minus|kind on the counter's keyboard
VehPress ==
    /\ hasTicket
    /\ \E action \in {"plus", "minus"}, kind \in VEHICLE_KINDS :
          /\ <<"veh", action, kind>> \in out.kb
          /\ action = "plus" => VehCount(ticket, kind) < MaxVeh
          /\ Commit(veh_adjust(Cur, action, kind))
    /\ UNCHANGED detours

\* nav|skip|dtp_vehicles on the counter's keyboard
VehSkip ==
    /\ hasTicket
    /\ BtnSkip("dtp_vehicles") \in out.kb
    /\ Commit(nav_skip(Cur, "dtp_vehicles", QuietEnv))
    /\ UNCHANGED detours

\* veh|done on the counter's keyboard
VehFinish ==
    /\ hasTicket
    /\ <<"veh", "done">> \in out.kb
    /\ Commit(veh_done(Cur))
    /\ UNCHANGED detours

\* nav|back|location, from the step after the counter back to the counter
VehReturn ==
    /\ hasTicket
    /\ BtnBack("location") \in out.kb
    /\ Commit(nav_back(Cur, "location"))
    /\ UNCHANGED detours

VehNext ==
    \/ VehStart
    \/ VehAnswer
    \/ VehPress
    \/ VehSkip
    \/ VehFinish
    \/ VehReturn

VehSpec == Init /\ [][VehNext]_vars

\* the draft after the presses of the sequence, first to last, on class kind
RECURSIVE Presses(_, _, _)
Presses(d, seq, kind) ==
    IF seq = <<>> THEN d
    ELSE Presses(veh_adjust(d, Head(seq), kind), Tail(seq), kind)

\* C21: an increment or a decrement sets the count of the class it names
\* to the count plus or minus one, not below 0, and changes no other class,
\* no other Ticket field, and neither the cursor, the mode nor a flag; no
\* count is ever negative; from the empty mapping three increments and one
\* decrement of a class leave it at 2, and a decrement of an uncounted
\* class leaves it at 0.
C21_VehicleCount ==
    hasTicket =>
        /\ \A k \in DOMAIN ticket.dtp_vehicles : ticket.dtp_vehicles[k] >= 0
        /\ DOMAIN ticket.dtp_vehicles \subseteq VEHICLE_KINDS
        /\ \A action \in {"plus", "minus"}, kind \in VEHICLE_KINDS :
              LET r == veh_adjust(Cur, action, kind)
                  n == VehCount(ticket, kind)
              IN  /\ VehCount(r.t, kind) = IF action = "plus" THEN n + 1 ELSE Max(0, n - 1)
                  /\ \A k \in VEHICLE_KINDS \ {kind} : VehCount(r.t, k) = VehCount(ticket, k)
                  /\ [r.t EXCEPT !.dtp_vehicles = ticket.dtp_vehicles] = ticket
                  /\ r.idx = step_idx
                  /\ r.mode = mode
                  /\ r.editing = editing
                  /\ r.custom = custom
        /\ ticket.dtp_vehicles = EmptyVehicles =>
              \A kind \in VEHICLE_KINDS :
                  /\ VehCount(Presses(Cur, <<"plus", "plus", "plus", "minus">>, kind).t, kind) = 2
                  /\ VehCount(Presses(Cur, <<"minus">>, kind).t, kind) = 0

\* one class was counted up to three and down to two while another was
\* decremented at 0 and a third never touched
C21_Witness ==
    /\ hasTicket
    /\ out = Ask("dtp_vehicles")
    /\ VehCount(ticket, "truck") = 2
    /\ "bus" \in DOMAIN ticket.dtp_vehicles
    /\ ticket.dtp_vehicles["bus"] = 0
    /\ "moto" \notin DOMAIN ticket.dtp_vehicles

(***************************************************************************)
(* The gateways on their own: the session answers every prompt, creates    *)
(* the issue, runs the RA flow and closes, while the tracker, the chat     *)
(* factory and the channels answer in every way they can.                  *)
(***************************************************************************)
\* the first message of the session
GwStart ==
    /\ ~hasTicket
    /\ Commit(start_new_draft(CurrentId))
    /\ UNCHANGED detours

\* an answer to the prompt on screen, up to the preview
GwAnswer ==
    /\ hasTicket
    /\ mode = PRIMARY_MODE
    /\ ticket.jira_main = None
    /\ out.kb \cap kb_summary = {}
    /\ LET key == current_step_key(ticket, mode, step_idx)
           kind == STEP_INPUT_KIND(key)
       IN  \E r \in (IF kind = "choice"
                     THEN {set_field(Cur, key, v, QuietEnv) :
                              v \in PressedValues(key) \cap AnswerValues(key)}
                     ELSE IF kind = "counter"
                     THEN {veh_done(Cur)}
                     ELSE {on_text(Cur, raw) :
                              raw \in {x \in TextsFor(kind) : TextAccepted(Cur, x)}}) :
               Commit(r)
    /\ UNCHANGED detours

\* summary|create on the preview, or on the error a failed creation left
GwCreate ==
    /\ hasTicket
    /\ <<"summary", "create">> \in out.kb
    /\ \E answer \in JiraAnswers, channel \in ChannelOutcomes :
          Commit(summary_create(Cur, answer, channel))
    /\ UNCHANGED detours

\* act|ra on the view shown after the creation
GwEnter ==
    /\ hasTicket
    /\ <<"act", "ra", ticket.id>> \in out.kb
    /\ Commit(act_ra(Cur, ticket.id))
    /\ UNCHANGED detours

\* act|ra once more, after a completion that provisioned a chat; the button
\* is the one of a message the fallback of safe_edit_message_text left behind
GwEnterAgain ==
    /\ hasTicket
    /\ out.text = <<"after_ra">>
    /\ ticket.ra_chat_id # None
    /\ detours = 0
    /\ detours' = 1
    /\ Commit(act_ra(Cur, ticket.id))

\* an answer to an RA prompt; the answer to the last one completes the flow
GwRaAnswer ==
    /\ hasTicket
    /\ mode = RA_MODE
    /\ LET key == current_step_key(ticket, mode, step_idx)
       IN  \E env \in (IF finish_ra_flow_if_needed(Cur) THEN RaEnvs ELSE {QuietEnv}) :
               Commit(set_field(Cur, key, "YES", env))
    /\ UNCHANGED detours

\* act|close on the view shown after the creation or after the RA flow
GwClose ==
    /\ hasTicket
    /\ <<"act", "close", ticket.id>> \in out.kb
    /\ \E answer \in TransitionAnswers, applied \in {"ok", "error"} :
          Commit(act_close(Cur, ticket.id, answer, applied))
    /\ UNCHANGED detours

\* dispatch on the view shown after the RA flow
GwDispatch ==
    /\ hasTicket
    /\ <<"dispatch", ticket.id>> \in out.kb
    /\ \E channel \in ChannelOutcomes : Commit(dispatch(Cur, ticket.id, channel))
    /\ UNCHANGED detours

GwNext ==
    \/ GwStart
    \/ GwAnswer
    \/ GwCreate
    \/ GwEnter
    \/ GwEnterAgain
    \/ GwRaAnswer
    \/ GwClose
    \/ GwDispatch

GatewaySpec == Init /\ [][GwNext]_vars

\* the next answer to, or skip of, the current step completes the RA flow
Completing == hasTicket /\ finish_ra_flow_if_needed(Cur)

\* the drafts the completing answer or skip leads to when the collaborators
\* answer as env says
Completions(env) ==
    LET key == current_step_key(ticket, mode, step_idx)
    IN  {set_field(Cur, key, v, env) : v \in AnswerValues(key)}
        \cup {nav_skip(Cur, key, env)}

\* C22: the secondary-completion always ends in PRIMARY mode with the
\* cursor at 0 and with the result view rendered to the requester, whatever
\* the chat factory did (a chat identifier, nothing, an error, not
\* configured) and whatever the other collaborators did.
C22_CompletionRenders ==
    Completing =>
        \A env \in RaEnvs : \A r \in Completions(env) :
            /\ r.mode = PRIMARY_MODE
            /\ r.idx = 0
            /\ r.out.text = <<"after_ra">>
            /\ <<"act", "close", ticket.id>> \in r.out.kb

\* the calls of the three post-provisioning actions
PostProvisioning == {"create_chat_invite_link", "set_chat_title", "post_summary"}

\* the calls that notify the alert channel
NotifyCalls == {"notify_help_with_link", "notify_help_without_link"}

\* env with each of the three post-provisioning actions succeeding
AllSucceed(env) == [env EXCEPT !.invite = "ok", !.title = "ok", !.post = "ok"]

\* the completing runs under env paired with the same runs under env0
CompletionPairs(env, env0) ==
    LET key == current_step_key(ticket, mode, step_idx)
    IN  {<<set_field(Cur, key, v, env), set_field(Cur, key, v, env0)>> : v \in AnswerValues(key)}
        \cup {<<nav_skip(Cur, key, env), nav_skip(Cur, key, env0)>>}

\* C23: when the chat factory gave a chat identifier, the invite link, the
\* rename and the summary post are each attempted whichever of them fail,
\* and the completion ends as it does when all three succeed: same mode and
\* cursor, same Ticket, the alert channel notified, the same view rendered
\* to the requester (the open-chat button aside, which needs the link) and
\* the same dispatch notice.
C23_BestEffort ==
    Completing =>
        \A env \in {e \in RaEnvs : e.gw = "chat"} :
            \A p \in CompletionPairs(env, AllSucceed(env)) :
                LET r == p[1]
                    r0 == p[2]
                IN  /\ PostProvisioning \subseteq r.calls
                    /\ r.mode = PRIMARY_MODE
                    /\ r.idx = 0
                    /\ r.t = r0.t
                    /\ r.t.ra_chat_id = ChatId
                    /\ env.notify # "off" => r.calls \cap NotifyCalls # {}
                    /\ r.out.text = r0.out.text
                    /\ r.out.kb \ {BtnOpenChat} = r0.out.kb \ {BtnOpenChat}
                    /\ env.notify # "TelegramError" => r.out.text = <<"after_ra">>
                    /\ ("ra_notice" \in r.calls) = ("ra_notice" \in r0.calls)

\* a chat was provisioned, the invite link failed, and the completion still
\* notified the alert channel and rendered the result with the dispatch button
C23_Witness ==
    /\ hasTicket
    /\ mode = PRIMARY_MODE
    /\ step_idx = 0
    /\ ticket.ra_chat_id = ChatId
    /\ PostProvisioning \subseteq calls
    /\ "notify_help_without_link" \in calls
    /\ "ra_notice" \in calls
    /\ out.text = <<"after_ra">>
    /\ out.kb = {<<"act", "close", ticket.id>>, <<"dispatch", ticket.id>>}

\* an invite link was obtained under env: the chat factory answered with
\* one, or a chat was provisioned and the invite-link generation succeeded
LinkObtained(env) ==
    LET res == try_create_chat_via_userbot(env.gw)
    IN  res.link \/ (res.chat_id # None /\ env.invite = "ok")

\* C24: a configured alert channel is sent the message with the invite link
\* exactly when an invite link was obtained during the completion, from the
\* chat factory's answer or from the invite-link generation, and the
\* link-less message otherwise.
C24_AlertLink ==
    Completing =>
        \A env \in {e \in RaEnvs : e.notify # "off"} : \A r \in Completions(env) :
            r.calls \cap NotifyCalls =
                IF LinkObtained(env) THEN {"notify_help_with_link"}
                ELSE {"notify_help_without_link"}

\* the chat factory's answer under env holds a chat identifier
ChatObtained(env) == try_create_chat_via_userbot(env.gw).chat_id # None

\* C25 as stated: the result view of a completion offers the dispatch
\* button exactly when that completion's request to the chat factory gave a
\* chat identifier.
C25_DispatchButtonOriginal ==
    Completing =>
        \A env \in RaEnvs : \A r \in Completions(env) :
            r.out.text = <<"after_ra">> =>
                (<<"dispatch", ticket.id>> \in r.out.kb) = ChatObtained(env)

\* C25: the result view of a completion offers the dispatch button exactly
\* when the Ticket holds a chat identifier once the chat factory has
\* answered: the one this completion obtained, or else the one an earlier
\* completion of the same Ticket stored.
C25_DispatchButton ==
    Completing =>
        \A env \in RaEnvs : \A r \in Completions(env) :
            /\ r.t.ra_chat_id = IF ChatObtained(env) THEN ChatId ELSE ticket.ra_chat_id
            /\ r.out.text = <<"after_ra">> =>
                  /\ (<<"dispatch", ticket.id>> \in r.out.kb) = (r.t.ra_chat_id # None)
                  /\ ChatObtained(env) => <<"dispatch", ticket.id>> \in r.out.kb

\* the RA flow was run a second time and the chat factory gave nothing: the
\* view offers the dispatch button for the chat of the first completion
C25_Witness ==
    /\ hasTicket
    /\ detours = 1
    /\ out.text = <<"after_ra">>
    /\ <<"dispatch", ticket.id>> \in out.kb
    /\ ticket.ra_chat_id = ChatId
    /\ calls \cap PostProvisioning = {}

\* the answers of the tracker that are a failed creation
FailedCreations == JiraAnswers \ {"created"}

\* C26: a creation the tracker fails (configuration missing, network error,
\* non-success status, unparsable body, success without a key) leaves the
\* Ticket and the Draft as they were, the issue key included, shows the
\* error with the summary actions so that creation can be triggered again,
\* sends no notice, and asks the tracker at most once: once, or not at all
\* when the configuration is missing; a creation that succeeds asks it once.
C26_FailedCreate ==
    hasTicket =>
        /\ \A answer \in FailedCreations, channel \in ChannelOutcomes :
              LET r == summary_create(Cur, answer, channel)
              IN  /\ SameDraft(r)
                  /\ r.t.jira_main = ticket.jira_main
                  /\ r.out.text[1] = "error"
                  /\ r.out.kb = kb_summary
                  /\ <<"summary", "create">> \in r.out.kb
                  /\ r.calls = IF answer = "config_missing" THEN {} ELSE {"jira_create"}
        /\ \A channel \in ChannelOutcomes :
              summary_create(Cur, "created", channel).calls \ {"delay_notice"} = {"jira_create"}

\* the tracker failed the creation: the error is on screen with the summary
\* actions and the Ticket has no key
C26_Witness ==
    /\ hasTicket
    /\ out.text[1] = "error"
    /\ out.kb = kb_summary
    /\ calls = {"jira_create"}
    /\ ticket.jira_main = None
    /\ ticket.notes # None

\* the calls that apply a transition
TransitionCalls(cs) == cs \ {"jira_get_transitions", "set_chat_permissions"}

\* the tracker lists no transition
EmptyList == [ok |-> TRUE, list |-> <<>>]

\* C27: a close of an issue whose transition list is empty shows the
\* no-transitions error, an error no other answer of the tracker gives,
\* applies no transition and leaves the Ticket and the Draft as they were;
\* whatever the tracker answers, a close never changes the Ticket or the Draft.
C27_CloseNoTransitions ==
    (hasTicket /\ ticket.jira_main # None) =>
        /\ \A applied \in {"ok", "error"} :
              LET r == act_close(Cur, ticket.id, EmptyList, applied)
              IN  /\ r.out = ErrorMsg("no_transitions", {})
                  /\ r.calls = {"jira_get_transitions"}
                  /\ SameDraft(r)
        /\ \A answer \in TransitionAnswers, applied \in {"ok", "error"} :
              LET r == act_close(Cur, ticket.id, answer, applied)
              IN  /\ SameDraft(r)
                  /\ r.out = ErrorMsg("no_transitions", {}) => answer = EmptyList
                  /\ TransitionCalls(r.calls) = {} => (~answer.ok \/ answer = EmptyList)

\* the tracker listed no transition: the error is on screen and the Ticket
\* still holds its key and its chat
C27_Witness ==
    /\ hasTicket
    /\ out = ErrorMsg("no_transitions", {})
    /\ calls = {"jira_get_transitions"}
    /\ ticket.jira_main # None
    /\ ticket.ra_chat_id # None

\* the index of the first transition of the list that matches, 0 when none does
RECURSIVE FirstMatch(_, _)
FirstMatch(transitions, i) ==
    IF i > Len(transitions) THEN 0
    ELSE IF \/ StripName(transitions[i].name) \in preferred_close_statuses
            \/ StripName(transitions[i].to) \in preferred_close_statuses
    THEN i
    ELSE FirstMatch(transitions, i + 1)

\* C28: for a non-empty transition list the close applies exactly one
\* transition: the first of the list whose name or target status is a
\* preferred close status, and the last of the list when none is.
C28_ClosePolicy ==
    (hasTicket /\ ticket.jira_main # None) =>
        \A answer \in {a \in TransitionAnswers : a.ok /\ a.list # <<>>}, applied \in {"ok", "error"} :
            LET r == act_close(Cur, ticket.id, answer, applied)
                m == FirstMatch(answer.list, 1)
                chosen == IF m = 0 THEN answer.list[Len(answer.list)] ELSE answer.list[m]
            IN  /\ TransitionCalls(r.calls) = {"jira_do_transition:" \o chosen.id}
                /\ "jira_get_transitions" \in r.calls
                /\ r.out = IF applied = "ok" THEN Response(<<"issue_closed">>, {})
                           ELSE ErrorMsg("http_error", {})

\* the issue was closed by a transition and the chat locked
C28_Witness ==
    /\ hasTicket
    /\ out.text = <<"issue_closed">>
    /\ "jira_do_transition:2" \in calls
    /\ "set_chat_permissions" \in calls

\* C29: a close of a Ticket that has no issue key shows the fixed message,
\* asks the tracker nothing, locks no chat and leaves the Draft as it was,
\* whatever the tracker would have answered.
C29_CloseNeedsKey ==
    (hasTicket /\ ticket.jira_main = None) =>
        \A answer \in TransitionAnswers, applied \in {"ok", "error"} :
            LET r == act_close(Cur, ticket.id, answer, applied)
            IN  /\ r.out = Response(<<"need_main_issue">>, {})
                /\ r.calls = {}
                /\ SameDraft(r)

\* close was pressed for a Ticket without a key: the fixed message is shown
C29_Witness ==
    /\ hasTicket
    /\ ticket.jira_main = None
    /\ out.text = <<"need_main_issue">>
    /\ calls = {}
    /\ ticket.incident_type # None

\* C30: a text message changes the Ticket only while the prompt on screen
\* asks for a text or a plate (the free-text override of incident_source
\* included); while the preview, the view after the creation or the view
\* after the RA flow is on screen, or in RA mode, it changes no Ticket field
\* and does not move the cursor.
C30_FreeTextScope ==
    hasTicket =>
        \A raw \in AllTexts :
            LET r == on_text(Cur, raw)
            IN  /\ r.t # ticket => TextAwaited
                /\ (\/ out = Preview
                    \/ out.text \in {<<"after_main">>, <<"after_ra">>}
                    \/ mode = RA_MODE) => (r.t = ticket /\ r.idx = step_idx)

(***************************************************************************)
(* The rendered summary: the session answers every prompt up to the        *)
(* preview, typing texts with and without markup characters.               *)
(***************************************************************************)
\* a text with the characters HTML markup is made of
MarkupText == <<"<", "b", ">", "&">>

\* html.escape for one character (quote=True)
EscapeChar(ch) ==
    CASE ch = "&" -> "&amp;" [] ch = "<" -> "&lt;" [] ch = ">" -> "&gt;"
      [] ch = "\"" -> "&quot;" [] ch = "'" -> "&#x27;"
      [] OTHER -> ch

RECURSIVE EscapeChars(_)
EscapeChars(text) ==
    IF text = <<>> THEN "" ELSE EscapeChar(Head(text)) \o EscapeChars(Tail(text))

\* the texts on_text can have stored
StoredTexts == {Strip(raw) : raw \in AllTexts \cup {MarkupText}}

\* the characters of a stored string
Chars(s) == CHOOSE text \in StoredTexts : Join(text) = s

_html_escape(s) == EscapeChars(Chars(s))

\* T["common"]["empty"]
EmptyValue == "-"

_safe_user_html(text) ==
    IF text = None \/ text = "" THEN EmptyValue ELSE _html_escape(text)

\* HUMANIZE_VALUE[key][val] for the values the table holds
HUMANIZE_VALUE(key, val) == "label " \o val

human(val, key) ==
    IF val = None \/ val = "" THEN EmptyValue
    ELSE IF val \in AnswerValues(key) THEN HUMANIZE_VALUE(key, val)
    ELSE val

\* the values render_primary_block puts between <b> and </b> on the lines of
\* the fields a user can type
render_primary_values(t) ==
    [incident_source |-> human(t.incident_source, "incident_source"),
     location |-> _safe_user_html(t.location),
     dtp_damage_text |-> _safe_user_html(t.dtp_damage_text),
     break_symptoms |-> _safe_user_html(t.break_symptoms),
     problem_desc |-> _safe_user_html(t.problem_desc),
     notes |-> _safe_user_html(t.notes)]

\* the first message of the session
RdStart ==
    /\ ~hasTicket
    /\ Commit(start_new_draft(CurrentId))
    /\ UNCHANGED detours

\* an option button of the choice prompt on screen
RdChoose ==
    /\ hasTicket
    /\ out.kb \cap kb_summary = {}
    /\ ~custom
    /\ LET key == current_step_key(ticket, mode, step_idx)
       IN  /\ STEP_INPUT_KIND(key) = "choice"
           /\ \E v \in PressedValues(key) : Commit(set_field(Cur, key, v, QuietEnv))
    /\ UNCHANGED detours

\* veh|done on the counter
RdCount ==
    /\ hasTicket
    /\ out = Ask("dtp_vehicles")
    /\ Commit(veh_done(Cur))
    /\ UNCHANGED detours

\* a text typed for the prompt on screen
RdType ==
    /\ hasTicket
    /\ out.kb \cap kb_summary = {}
    /\ LET key == current_step_key(ticket, mode, step_idx)
           kind == STEP_INPUT_KIND(key)
       IN  \E raw \in (IF kind \in {"plate", "plate_ref"}
                       THEN {Plate3Text, PlateRefText}
                       ELSE {FreeText, MarkupText}) :
               /\ TextAccepted(Cur, raw)
               /\ Commit(on_text(Cur, raw))
    /\ UNCHANGED detours

RdNext ==
    \/ RdStart
    \/ RdChoose
    \/ RdCount
    \/ RdType

RenderSpec == Init /\ [][RdNext]_vars

\* the fields whose value a user types
FREE_TEXT_FIELDS ==
    {"location", "dtp_damage_text", "break_symptoms", "problem_desc", "notes"}

\* field f of Ticket t holds a text the user typed
UserTyped(t, f) ==
    /\ t[f] # None
    /\ f = "incident_source" => t[f] \notin AnswerValues(f)

\* C31: every Ticket field whose value a user typed (location, damage,
\* symptoms, problem description, notes, and incident_source entered through
\* the free-text override) appears escaped in the rendered summary.
C31_SummaryEscaped ==
    hasTicket =>
        \A f \in FREE_TEXT_FIELDS \cup {"incident_source"} :
            UserTyped(ticket, f) =>
                render_primary_values(ticket)[f] = _html_escape(ticket[f])

(***************************************************************************)
(* The primary plate: the session reaches the plate prompt under each      *)
(* brand, and with the brand skipped, and types plates of every shape.     *)
(***************************************************************************)
\* the longest digit block and the longest region typed
MaxBlock == 5

MaxRegion == 4

DigitSeq == <<"1", "2", "3", "4", "5", "6", "7", "8", "9", "0">>

\* a run of n digits
DigitBlock(n) == [i \in 1..n |-> DigitSeq[((i - 1) % 10) + 1]]

\* the plates typed: a first letter (Latin lower case, Cyrillic, or a letter
\* no plate has), a digit block, with or without a separator, two letters
\* (or a letter and a digit), a region
PlateInputs ==
    {<<l>> \o DigitBlock(n) \o sep \o l2 \o DigitBlock(r) :
        l \in {"a", "cK", "d"}, n \in 2..MaxBlock,
        sep \in {<<>>, <<" ">>, <<"-">>},
        l2 \in {<<"x", "X">>, <<"cM", "o">>, <<"T", "d">>}, r \in 1..MaxRegion}
    \cup {BlankText}

\* the first message of the session
PlStart ==
    /\ ~hasTicket
    /\ Commit(start_new_draft(CurrentId))
    /\ UNCHANGED detours

\* an option button of the choice prompt on screen
PlChoose ==
    /\ hasTicket
    /\ LET key == current_step_key(ticket, mode, step_idx)
       IN  /\ out = Ask(key)
           /\ STEP_INPUT_KIND(key) = "choice"
           /\ \E v \in AnswerValues(key) : Commit(set_field(Cur, key, v, QuietEnv))
    /\ UNCHANGED detours

\* nav|skip|brand on the brand prompt
PlSkipBrand ==
    /\ hasTicket
    /\ out = Ask("brand")
    /\ <<"nav", "skip", "brand">> \in out.kb
    /\ Commit(nav_skip(Cur, "brand", QuietEnv))
    /\ UNCHANGED detours

\* a plate typed while the primary plate is awaited
PlType ==
    /\ hasTicket
    /\ current_step_key(ticket, mode, step_idx) = "plate_vats"
    /\ \E raw \in PlateInputs : Commit(on_text(Cur, raw))
    /\ UNCHANGED detours

\* set|brand|value from the brand prompt, which is still on screen above,
\* pressed once the plate is stored
PlBrandAgain ==
    /\ hasTicket
    /\ ticket.plate_vats # NoPlate
    /\ \E v \in AnswerValues("brand") : Commit(set_field(Cur, "brand", v, QuietEnv))
    /\ UNCHANGED detours

PlNext ==
    \/ PlStart
    \/ PlChoose
    \/ PlSkipBrand
    \/ PlType
    \/ PlBrandAgain

PlateSpec == Init /\ [][PlNext]_vars

RECURSIVE DigitRun(_, _)
\* the number of digits of s from position i on, up to the first non-digit
DigitRun(s, i) ==
    IF i > Len(s) \/ s[i] \notin DigitChars THEN 0 ELSE 1 + DigitRun(s, i + 1)

\* s is one series letter, a block of lo..hi digits, two series letters and
\* a region of 2 or 3 digits
PlateShape(s, lo, hi) ==
    /\ Len(s) >= 1
    /\ s[1] \in SERIES_CYR
    /\ LET n == DigitRun(s, 2)
       IN  /\ n \in lo..hi
           /\ Len(s) >= 3 + n
           /\ s[2 + n] \in SERIES_CYR
           /\ s[3 + n] \in SERIES_CYR
           /\ DigitRun(s, 4 + n) \in 2..3
           /\ Len(s) = 3 + n + DigitRun(s, 4 + n)

\* the pattern of the brand
ShapeFor(s, brand) ==
    IF brand = "KIA_CEED" THEN PlateShape(s, 3, 3) ELSE PlateShape(s, 3, 4)

\* the primary plate is awaited
PlateAwaited ==
    hasTicket /\ mode = PRIMARY_MODE
    /\ current_step_key(ticket, mode, step_idx) = "plate_vats"

\* C32: a typed primary plate is accepted, after normalisation, under brand
\* KIA_CEED iff it is one series letter, exactly 3 digits, 2 series letters
\* and a 2-or-3-digit region, and under any other brand (unset included) iff
\* the digit block has 3 or 4 digits; every other input is rejected.
C32_PlateByBrand ==
    PlateAwaited =>
        \A raw \in PlateInputs :
            LET s == Compact(Strip(raw))
                r == on_text(Cur, raw)
            IN  IF ShapeFor(s, ticket.brand)
                THEN /\ normalize_vats_plate(Strip(raw), ticket.brand) = s
                     /\ r.t.plate_vats = s
                     /\ r.out.text # <<"error", "plate_invalid">>
                ELSE /\ normalize_vats_plate(Strip(raw), ticket.brand) = NoPlate
                     /\ r.t = ticket
                     /\ r.out = ErrorMsg("plate_invalid", kb_nav("plate_vats", TRUE))

\* a plate with a 4-digit block was typed and stored with the brand unset
C32_Witness ==
    /\ hasTicket
    /\ ticket.brand = None
    /\ ticket.plate_vats = <<"cK", "1", "2", "3", "4", "cX", "cX", "1", "2">>
    /\ out = Ask("location")

\* mutant: the space is put before the last two digits whatever the region
format_vats_display_two(compact) ==
    IF compact = <<>> THEN <<EmptyValue>>
    ELSE IF ~(PLATE_RE_34(compact) \/ PLATE_RE_3(compact)) THEN compact
    ELSE SubSeq(compact, 1, Len(compact) - 2) \o <<" ">>
         \o SubSeq(compact, Len(compact) - 1, Len(compact))

\* the characters of the displayed plate: f"{l1}{d}{l2} {reg}" of the match
format_vats_display(compact) ==
    IF compact = <<>> THEN <<EmptyValue>>
    ELSE IF ~(PLATE_RE_34(compact) \/ PLATE_RE_3(compact)) THEN compact
    ELSE LET n == CHOOSE k \in 3..4 : PlateMatch(compact, k, k)
         IN  SubSeq(compact, 1, 3 + n) \o <<" ">>
             \o SubSeq(compact, 4 + n, Len(compact))

\* the text without its blanks
Unspaced(text) == SelectSeq(text, LAMBDA ch : ch # " ")

\* C33: for every accepted primary plate the normalised form is compact and
\* canonical (series letters in Cyrillic and digits only), normalising it
\* again gives it back, and its display form is the same characters with a
\* single space put before the region.
C33_PlateRoundTrip ==
    PlateAwaited =>
        \A raw \in PlateInputs :
            LET norm == on_text(Cur, raw).t.plate_vats
                disp == format_vats_display(norm)
            IN  (norm # ticket.plate_vats) =>
                    /\ norm = normalize_vats_plate(Strip(raw), ticket.brand)
                    /\ \A i \in DOMAIN norm : norm[i] \in SERIES_CYR \cup DigitChars
                    /\ normalize_vats_plate(norm, ticket.brand) = norm
                    /\ Len(disp) = Len(norm) + 1
                    /\ Unspaced(disp) = norm
                    /\ \E r \in 2..3 :
                          /\ disp[Len(disp) - r] = " "
                          /\ disp[Len(disp) - r - 1] \in SERIES_CYR
                          /\ AllIn(disp, Len(disp) - r + 1, Len(disp), DigitChars)

\* "a123-xX123" was typed and stored; it is displayed with the region apart
C33_Witness ==
    /\ hasTicket
    /\ ticket.plate_vats = <<"cA", "1", "2", "3", "cX", "cX", "1", "2", "3">>
    /\ format_vats_display(ticket.plate_vats)
          = <<"cA", "1", "2", "3", "cX", "cX", " ", "1", "2", "3">>
    /\ out = Ask("location")

(***************************************************************************)
(* Two users: the application takes the updates of both in any order and   *)
(* runs the handler of each on the user's own user_data.                   *)
(***************************************************************************)
\* the steps the two users answer
EarlyKeys == {"incident_type", "incident_source", "dtp_type", "brand", "plate_vats"}

\* the identifier short_id gives the Ticket of a user
NewId(u) == IF u = "A" THEN "1" ELSE "2"

Update(cmd, key, v, raw) == [cmd |-> cmd, key |-> key, v |-> v, raw |-> raw]

\* context.user_data of the update's user
get_draft(data, u) == data[u]

\* the handler the application routes update upd of user u to, run on draft d
Handle(u, d, upd) ==
    IF d.t.id = None \/ upd.cmd = "start" THEN start_new_draft(NewId(u))
    ELSE IF upd.cmd = "set" THEN set_field(d, upd.key, upd.v, QuietEnv)
    ELSE on_text(d, upd.raw)

\* mutant: concurrent_updates is on, an update is taken while a handler runs
CanDispatch_concurrent == Cardinality(running) < 2

\* the application takes the next update once the handler of the last one
\* has returned
CanDispatch == running = {}

\* the handler is entered with the draft of the update's user
Enter(u, upd) ==
    /\ CanDispatch
    /\ running' = running \cup {[user |-> u, upd |-> upd, seen |-> get_draft(user_data, u)]}
    /\ UNCHANGED <<hasTicket, ticket, step_idx, mode, editing, custom, out, calls,
                   detours, user_data, alone>>

\* the first message of a user, or /start
SsStart ==
    \E u \in Users :
        /\ get_draft(user_data, u).t.id = None
        /\ Enter(u, Update("start", "", "", <<>>))

\* an option button of the choice prompt on the user's screen
SsCallback ==
    \E u \in Users :
        LET d == get_draft(user_data, u)
            key == current_step_key(d.t, d.mode, d.idx)
        IN  /\ d.t.id # None
            /\ key \in EarlyKeys
            /\ STEP_INPUT_KIND(key) = "choice"
            /\ \E v \in PressedValues(key) \cap AnswerValues(key) :
                  Enter(u, Update("set", key, v, <<>>))

\* a text typed for the prompt on the user's screen
SsMessage ==
    \E u \in Users :
        LET d == get_draft(user_data, u)
            key == current_step_key(d.t, d.mode, d.idx)
        IN  /\ d.t.id # None
            /\ key \in EarlyKeys
            /\ STEP_INPUT_KIND(key) # "choice"
            /\ \E raw \in TextsFor(STEP_INPUT_KIND(key)) :
                  Enter(u, Update("text", key, "", raw))

\* a handler returns: what it did to the draft it was entered with is the
\* user's draft
SsReturn ==
    \E h \in running :
        /\ user_data' = [user_data EXCEPT ![h.user] = Handle(h.user, h.seen, h.upd)]
        /\ alone' = [alone EXCEPT ![h.user] = Handle(h.user, alone[h.user], h.upd)]
        /\ running' = running \ {h}
        /\ UNCHANGED <<hasTicket, ticket, step_idx, mode, editing, custom, out,
                       calls, detours>>

SsNext ==
    \/ SsStart
    \/ SsCallback
    \/ SsMessage
    \/ SsReturn

SessionsSpec == Init /\ [][SsNext]_vars

InitialDraft(r) ==
    /\ r.t.id \in TicketIds
    /\ \A f \in (DOMAIN r.t) \ {"id", "plate_vats", "plate_ref", "dtp_vehicles"} :
          r.t[f] = None
    /\ r.t.plate_vats = NoPlate
    /\ r.t.plate_ref = NoPlate
    /\ DOMAIN r.t.dtp_vehicles = {}
    /\ r.idx = 0
    /\ r.mode = PRIMARY_MODE
    /\ ~r.editing
    /\ ~r.custom

\* C35: the start action leaves, from any Draft state, the initial Draft (a
\* fresh Ticket with every optional field unset, an empty vehicle-count
\* mapping, no issue key and no chat identifier, cursor 0, PRIMARY mode, no
\* editing, the override flag cleared); whatever arrives while the session
\* has no Ticket is this start and calls nothing.
C35_StartReplaces ==
    [][/\ InitialDraft(start_new_draft(CurrentId))
       /\ ~hasTicket =>
             /\ hasTicket'
             /\ InitialDraft(Draft(ticket', step_idx', mode', editing', custom', out', calls'))
             /\ out' = Response(<<"question", "incident_type">>, kb_choice("incident_type"))
             /\ calls' = {}]_vars

\* a start made in a session that was under way (a detour was taken before
\* it): the Ticket is fresh and the first prompt is on screen
C35_Witness ==
    /\ hasTicket
    /\ detours = 1
    /\ InitialDraft(Cur)
    /\ out = Response(<<"question", "incident_type">>, kb_choice("incident_type"))

\* C36: a stored primary plate matches the pattern of the Ticket's current
\* brand: exactly 3 digits in the block when brand = KIA_CEED, 3 or 4
\* otherwise, also after the brand was skipped to unset and set again.
C36_PlateMatchesBrand ==
    (hasTicket /\ ticket.plate_vats # NoPlate) =>
        ShapeFor(ticket.plate_vats, ticket.brand)

\* the drafts a token of another step than the current one leads to: a set
\* or a skip that names another field, a done of the counter pressed on
\* another step
StaleSets ==
    LET cur == current_step_key(ticket, mode, step_idx)
    IN  {set_field(Cur, key, v, env) :
            key \in CHOICE_KEYS \ {cur}, v \in {"YES", "DTP", "KIA_CEED", "DRIVER_CALL"},
            env \in SessionEnvs}

StaleSkips ==
    LET cur == current_step_key(ticket, mode, step_idx)
    IN  {nav_skip(Cur, key, env) : key \in NAV_KEYS \ {cur}, env \in SessionEnvs}

StaleDone ==
    IF current_step_key(ticket, mode, step_idx) = "dtp_vehicles" THEN {} ELSE {veh_done(Cur)}

\* draft r has the cursor where it was and shows neither the preview nor
\* the view after the RA flow
CursorKept(r) ==
    /\ r.idx <= step_idx
    /\ r.mode = mode
    /\ r.out.text \notin {<<"preview">>, <<"after_ra">>}

\* C37: outside editing, a set, skip or counter-done token that names (or
\* belongs to) another field than the current step leaves the cursor on the
\* current step and triggers neither the preview nor the secondary
\* completion.
C37_StaleTokenKeepsCursor ==
    (hasTicket /\ ~editing) =>
        \A r \in StaleSets \cup StaleSkips \cup StaleDone : CursorKept(r)

\* C38: a pick of field f to edit that is accepted (f is in the active list
\* when the pick arrives) ends with editing set, PRIMARY mode and the
\* current step equal to f, from any Draft state, RA mode included; a pick
\* of a field that is not in the active list leaves the Draft unchanged.
C38_EditPick ==
    hasTicket =>
        \A f \in STEP_KEYS :
            LET r == edit_field(Cur, f)
            IN  IF f \in Range(active_steps(ticket, mode))
                THEN /\ r.editing
                     /\ r.mode = PRIMARY_MODE
                     /\ current_step_key(r.t, r.mode, r.idx) = f
                     /\ r.out = Ask(f)
                ELSE SameDraft(r) /\ r.calls = {}

\* the fields of the primary questionnaire
PRIMARY_FIELDS == STEP_KEYS \ RA_KEYS

\* what a text, set, skip, back, counter or edit action makes of the draft
PrimaryActions ==
    {on_text(Cur, raw) : raw \in AllTexts}
    \cup {set_field(Cur, key, v, QuietEnv) : key \in CHOICE_KEYS \cap PRIMARY_FIELDS,
                                             v \in {"DTP", "BREAK", "KIA_CEED", "YES"}}
    \cup {nav_skip(Cur, key, QuietEnv) : key \in NAV_KEYS \cap PRIMARY_FIELDS}
    \cup {nav_back(Cur, key) : key \in NAV_KEYS}
    \cup {veh_adjust(Cur, action, kind) : action \in {"plus", "minus"}, kind \in VEHICLE_KINDS}
    \cup {veh_done(Cur)}
    \cup {edit_field(Cur, key) : key \in PRIMARY_FIELDS}

\* C39: once the issue key of a Ticket is set, no text, set, skip, back,
\* counter or edit action changes a primary field of the Ticket, and the
\* summary with the create action is not shown again for it.
C39_FiledTicketFrozen ==
    (hasTicket /\ ticket.jira_main # None) =>
        \A r \in PrimaryActions :
            /\ \A f \in PRIMARY_FIELDS : r.t[f] = ticket[f]
            /\ <<"summary", "create">> \notin r.out.kb

\* C40: an enter-RA, close or dispatcher-alert token whose ticket
\* identifier is not the identifier of the session's current Ticket is
\* ignored: the Draft and the Ticket stay as they are, nothing is rendered
\* and no tracker, provisioning or notification call is made.
C40_ForeignIdIgnored ==
    hasTicket =>
        \A t_id \in TicketIds \ {ticket.id} :
            \A r \in {act_ra(Cur, t_id)}
                     \cup {act_close(Cur, t_id, answer, applied) :
                              answer \in TransitionAnswers, applied \in {"ok", "error"}}
                     \cup {dispatch(Cur, t_id, channel) : channel \in ChannelOutcomes} :
                /\ SameDraft(r)
                /\ r.calls = {}
                /\ r.out = NoResponse

\* a button of another ticket was pressed on the view after the RA flow of
\* a Ticket with a chat: nothing was rendered and nothing was called
C40_Witness ==
    /\ hasTicket
    /\ ticket.jira_main # None
    /\ ticket.ra_chat_id # None
    /\ mode = PRIMARY_MODE
    /\ detours = 1
    /\ out = NoResponse
    /\ calls = {}

====
